---- MODULE Spec2Model ----
(***************************************************************************)
(* State-machine model of InferenceHTTPClient                              *)
(* (src/inference_sdk/http/client.py): the session state of the client,    *)
(* the model-registry operations, describe-or-load, and the inference      *)
(* pipeline (request building, concurrent dispatch, normalisation).        *)
(*                                                                         *)
(* A public call is a sequence of steps: the step that starts it runs the  *)
(* local code up to the first network request; every further step is the   *)
(* arrival of a response (the only suspension points of the client).       *)
(* The backend is an external collaborator: each of its answers is chosen  *)
(* nondeterministically.                                                   *)
(***************************************************************************)
EXTENDS Naturals, Integers, Sequences, FiniteSets, TLC

(* ------------------------------ bounds -------------------------------- *)

\* largest number of images handed to one call
MaxImages == 3

\* largest max_batch_size a configuration carries
MaxBatchSize == 2

\* largest max_concurent_requests a configuration carries
MaxConcurrentRequests == 2

\* deepest nesting of scoped overrides
MaxScopeDepth == 2

(* ----------------------------- vocabulary ----------------------------- *)

\* Python's None, for Optional[str] fields holding a model identifier
None == <<"None">>

\* HTTPClientMode (imported at client.py:15)
V0 == "V0"

V1 == "V1"

\* model identifiers are strings, modelled as sequences of characters
M1 == <<"a", "/", "1">>

M2 == <<"b", "/", "2">>

MBad == <<"a">>

MLong == <<"a", "/", "1", "/", "x">>

ModelIds == {M1, M2, MBad}

\* base addresses handed to the constructor, as sequences of tokens
HostedUrl == <<"https://", "detect.", "roboflow.com">>

LocalUrl == <<"http://", "localhost", ":9001">>

\* a self-hosted server whose host name holds the text "roboflow.com"
\* (http://roboflow.company.internal:9001)
CompanyUrl == <<"http://", "roboflow.com", "pany.internal", ":9001">>

ApiUrls == {HostedUrl, LocalUrl, CompanyUrl}

\* task types of a ModelDescription
OBJECT_DETECTION_TASK == "object-detection"

CLASSIFICATION_TASK == "classification"

INSTANCE_SEGMENTATION_TASK == "instance-segmentation"

KEYPOINTS_DETECTION_TASK == "keypoint-detection"

OtherTask == "unsupported-task"

\* the keys of NEW_INFERENCE_ENDPOINTS
NEW_INFERENCE_ENDPOINTS == {INSTANCE_SEGMENTATION_TASK, OBJECT_DETECTION_TASK,
                            CLASSIFICATION_TASK, KEYPOINTS_DETECTION_TASK}

\* NEW_INFERENCE_ENDPOINTS[task_type]
new_inference_endpoint(task_type) ==
    CASE task_type = INSTANCE_SEGMENTATION_TASK -> <<"/infer/instance_segmentation">>
      [] task_type = OBJECT_DETECTION_TASK -> <<"/infer/object_detection">>
      [] task_type = CLASSIFICATION_TASK -> <<"/infer/classification">>
      [] task_type = KEYPOINTS_DETECTION_TASK -> <<"/infer/keypoints_detection">>

\* CLIP_ARGUMENT_TYPES
CLIP_ARGUMENT_TYPES == {"image", "text"}

\* values handed as subject_type / prompt_type
ArgumentTypes == {"image", "text", "audio"}

\* task types the modelled backend reports
TaskTypes == {OBJECT_DETECTION_TASK, OtherTask}

\* scaling factors the loader reports (resized / original), as <<num, den>>
NoScaling == <<1, 1>>

Halved == <<1, 2>>

TwoThirds == <<2, 3>>

ScalingFactors == {NoScaling, Halved, TwoThirds}

\* an Optional[int] size that is None
NoSize == 0

\* the default_max_input_size of the InferenceConfiguration, an int
DefaultMaxInputSize == 1024

\* InferenceConfiguration: the two tunables the dispatch depends on, and the
\* two the loader's maximum input size depends on
Configurations == [max_batch_size : 1..MaxBatchSize,
                   max_concurent_requests : 1..MaxConcurrentRequests,
                   client_downsizing_disabled : {FALSE},
                   default_max_input_size : {DefaultMaxInputSize}]

\* InferenceConfiguration.init_default()
init_default == [max_batch_size |-> 1, max_concurent_requests |-> 1,
                 client_downsizing_disabled |-> FALSE,
                 default_max_input_size |-> DefaultMaxInputSize]

VARIABLES
    api_url,                  \* self.__api_url
    client_mode,              \* self.__client_mode
    selected_model,           \* self.__selected_model
    inference_configuration,  \* self.__inference_configuration
    scope_stack,              \* active scoped overrides, innermost last
    pc,                       \* position of the public call in progress
    call,                     \* the public call in progress and its arguments
    pre,                      \* session state when the call started
    allow_loading,            \* allow_loading of the get_model_description frame
    model_description,        \* description resolved by describe-or-load
    requests_data,            \* request packages built by prepare_requests_data
    status,                   \* per package: pending / inflight / ok / failed
    responses,                \* per package: the response, by position
    sent,                     \* per package: how many times it was sent
    http,                     \* requests issued by the call, per endpoint
    outcome                   \* what the call returned or raised

vars == <<api_url, client_mode, selected_model, inference_configuration,
          scope_stack, pc, call, pre, allow_loading, model_description,
          requests_data, status, responses, sent, http, outcome>>

session == <<api_url, client_mode, selected_model, inference_configuration>>

(* ------------------------------ helpers ------------------------------- *)

NoCall == [op |-> "none", is_async |-> FALSE, model_id |-> None,
           set_as_default |-> FALSE, allow_loading |-> TRUE,
           is_list |-> FALSE, sfs |-> <<>>,
           workspace_name |-> None, workflow_name |-> None,
           workflow_specification |-> None,
           subject_type |-> "image", prompt_type |-> "text"]

NoDescription == [model_id |-> None, task_type |-> "none",
                  input_height |-> NoSize, input_width |-> NoSize]

\* the responses with an HTTP error status the modelled backend sends: a JSON
\* one and one that is not JSON, with different status codes
ErrorResponses ==
    {[status_code |-> 404, content_type |-> "application/json"],
     [status_code |-> 500, content_type |-> "text/html"]}

\* no response: the request got none, or did not fail
NoResponse == [status_code |-> 0, content_type |-> "none"]

\* the message field of the JSON body of an error response
response_json_message(response) == <<"message", response.status_code>>

\* the raw text of the body of an error response
response_text(response) == <<"text", response.status_code>>

NoMessage == <<"none", 0>>

NoOutcome == [kind |-> "none", error |-> "none", bare |-> FALSE, results |-> <<>>,
              status_code |-> 0, api_message |-> NoMessage]

\* the url and the payload's specification of a workflow request; the
\* payload keys of a comparison request that hold images the call loaded;
\* whether the payload has the api_key field
NoRequest == [url |-> [api_url |-> None, path |-> <<>>, query |-> <<>>],
              api_key |-> FALSE, specification |-> None,
              loaded_inputs |-> {}]

\* the requests the call has issued, per endpoint; for the properties, the
\* answers received to the registry and single-request endpoints, in order,
\* and whether a package completed while an earlier one was still in flight;
\* `previous` is the description the call before this one resolved, where
\* the caller's history is followed (call_ends_remembering); `posted` is the
\* request infer_from_workflow built
NoHttp == [registry |-> 0, add |-> 0, remove |-> 0, clear |-> 0, post |-> 0,
           answers |-> <<>>, out_of_order |-> FALSE,
           failure |-> "none", error_response |-> NoResponse,
           loaded |-> None, previous |-> NoDescription, posted |-> NoRequest]

\* the answer `a` arrived
Answered(a) == [http EXCEPT !.answers = Append(@, a)]

\* the request failed with `failure`, the backend having sent `response`
Failing(failure, response) ==
    [Answered(failure) EXCEPT !.failure = failure, !.error_response = response]

\* number of HTTP requests the call in progress has issued so far
HttpCount == http.registry + http.add + http.remove + http.clear + http.post

Snapshot == [client_mode |-> client_mode, selected_model |-> selected_model,
             inference_configuration |-> inference_configuration]

\* `pre` while no call is in progress
NoSnapshot == [client_mode |-> "none", selected_model |-> None,
               inference_configuration |-> init_default]

Raised(e) == [NoOutcome EXCEPT !.kind = "raise", !.error = e]

Returned(is_bare, rs) == [NoOutcome EXCEPT !.kind = "return", !.bare = is_bare, !.results = rs]

(* -------------------------- error translation ------------------------- *)

\* how a network request can fail
Failures == {"status_error", "connection_failure"}

\* the exception the transport raises for a failed request: requests
\* (blocking entry points) or aiohttp (non-blocking entry points)
TransportError(is_async, failure) ==
    IF is_async
    THEN (IF failure = "status_error" THEN "aiohttp.ClientResponseError"
                                      ELSE "aiohttp.ClientConnectionError")
    ELSE (IF failure = "status_error" THEN "requests.HTTPError"
                                      ELSE "requests.ConnectionError")

\* wrap_errors: the try/except runs around function(*args, **kwargs); for an
\* `async def` that call only creates the coroutine, so nothing raised while
\* it is awaited passes through the except clauses
wrap_errors(is_async, error) ==
    IF is_async THEN error
    ELSE CASE error = "requests.HTTPError" -> "HTTPCallErrorError"
           [] error = "ConnectionError" -> "HTTPClientError"
           [] OTHER -> error

\* the responses a failure of the given kind can come with
ResponsesOf(failure) ==
    IF failure = "status_error" THEN ErrorResponses ELSE {NoResponse}

\* wrap_errors, lines 79-82: the api_message taken from error.response
api_message(response) ==
    IF response.content_type = "application/json"
    THEN response_json_message(response)
    ELSE response_text(response)

\* wrap_errors, lines 83-87: the HTTPCallErrorError built from error.response;
\* no other error carries a status code or an API message
call_error_from(raised, response) ==
    IF raised.error = "HTTPCallErrorError"
    THEN [raised EXCEPT !.status_code = response.status_code,
                        !.api_message = api_message(response)]
    ELSE raised

\* the public operations decorated with @wrap_errors
Decorated == {"infer", "list_loaded_models", "load_model", "unload_model",
              "unload_all_models", "prompt_cogvlm", "ocr_image", "detect_gazes",
              "get_clip_image_embeddings", "clip_compare", "infer_from_workflow"}

\* an error raised in the body of the public operation itself
RaiseFromBody(c, error) ==
    Raised(IF c.op \in Decorated THEN wrap_errors(c.is_async, error) ELSE error)

\* an error raised inside list_loaded_models / load_model (both decorated)
\* when they are called by another operation
RaiseFromRegistryCall(c, error) ==
    RaiseFromBody(c, wrap_errors(c.is_async, error))

(* ------------------------------- Init --------------------------------- *)

\* _determine_client_mode: "roboflow.com" in api_url
determine_client_mode(url) ==
    IF \E i \in 1..Len(url) : url[i] = "roboflow.com" THEN V0 ELSE V1

Init ==
    /\ api_url \in ApiUrls
    /\ client_mode = determine_client_mode(api_url)
    /\ selected_model = None
    /\ inference_configuration = init_default
    /\ scope_stack = <<>>
    /\ pc = "idle"
    /\ call = NoCall
    /\ pre = NoSnapshot
    /\ allow_loading = TRUE
    /\ model_description = NoDescription
    /\ requests_data = <<>>
    /\ status = <<>>
    /\ responses = <<>>
    /\ sent = <<>>
    /\ http = NoHttp
    /\ outcome = NoOutcome

\* InferenceHTTPClient(api_url=url, api_key=...): a client is constructed
\* (again) while nothing is in progress
InferenceHTTPClient(url) ==
    /\ pc = "idle"
    /\ scope_stack = <<>>
    /\ api_url' = url
    /\ inference_configuration' = init_default
    /\ client_mode' = determine_client_mode(url)
    /\ selected_model' = None
    /\ UNCHANGED <<scope_stack, pc, call, pre, allow_loading, model_description,
                   requests_data, status, responses, sent, http, outcome>>

callvars == <<pc, call, pre, allow_loading, model_description, requests_data,
              status, responses, sent, http, outcome>>

execvars == <<requests_data, status, responses, sent>>

(* --------------------------- session setters -------------------------- *)

configure(cfg) ==
    /\ pc = "idle"
    /\ inference_configuration' = cfg
    /\ UNCHANGED <<api_url, client_mode, selected_model, scope_stack, callvars>>

select_api_v0 ==
    /\ pc = "idle"
    /\ client_mode' = V0
    /\ UNCHANGED <<api_url, selected_model, inference_configuration, scope_stack, callvars>>

select_api_v1 ==
    /\ pc = "idle"
    /\ client_mode' = V1
    /\ UNCHANGED <<api_url, selected_model, inference_configuration, scope_stack, callvars>>

select_model(model_id) ==
    /\ pc = "idle"
    /\ selected_model' = model_id
    /\ UNCHANGED <<api_url, client_mode, inference_configuration, scope_stack, callvars>>

(* ------------------------- starting a public call --------------------- *)

\* mutant: the mode check is left out
ensure_v1_client_mode_skipped == TRUE

\* __ensure_v1_client_mode passes
ensure_v1_client_mode == client_mode = V1

\* the call c starts and its local code ends in `error` before any request
StartRaising(c, error) ==
    /\ pc = "idle"
    /\ call' = c
    /\ pre' = Snapshot
    /\ pc' = "done"
    /\ outcome' = RaiseFromBody(c, error)
    /\ UNCHANGED <<allow_loading, model_description, execvars, http>>

\* the call c starts and its local code reaches the request to `endpoint`
StartRequest(c, endpoint) ==
    /\ pc = "idle"
    /\ call' = c
    /\ pre' = Snapshot
    /\ pc' = endpoint
    /\ http' = [NoHttp EXCEPT ![endpoint] = 1,
                              !.loaded = IF endpoint = "add" THEN c.model_id ELSE None,
                              !.previous = http.previous]
    /\ allow_loading' = c.allow_loading
    /\ UNCHANGED <<model_description, execvars, outcome>>

\* a Current-only operation whose first request goes to `endpoint`
StartV1Only(c, endpoint) ==
    IF ensure_v1_client_mode
    THEN StartRequest(c, endpoint)
    ELSE StartRaising(c, "WrongClientModeError")

(* --------------------------- model registry --------------------------- *)

list_loaded_models(is_async) ==
    /\ StartV1Only([NoCall EXCEPT !.op = "list_loaded_models", !.is_async = is_async],
                   "registry")
    /\ UNCHANGED <<session, scope_stack>>

load_model(is_async, model_id, set_as_default) ==
    /\ StartV1Only([NoCall EXCEPT !.op = "load_model", !.is_async = is_async,
                                  !.model_id = model_id,
                                  !.set_as_default = set_as_default],
                   "add")
    /\ UNCHANGED <<session, scope_stack>>

\* mutant: the selection is cleared before the request is sent
unload_model_clearing_first(is_async, model_id) ==
    /\ StartV1Only([NoCall EXCEPT !.op = "unload_model", !.is_async = is_async,
                                  !.model_id = model_id],
                   "remove")
    /\ selected_model' = IF selected_model = model_id THEN None ELSE selected_model
    /\ UNCHANGED <<api_url, client_mode, inference_configuration, scope_stack>>

unload_model(is_async, model_id) ==
    /\ StartV1Only([NoCall EXCEPT !.op = "unload_model", !.is_async = is_async,
                                  !.model_id = model_id],
                   "remove")
    /\ UNCHANGED <<session, scope_stack>>

unload_all_models(is_async) ==
    /\ StartV1Only([NoCall EXCEPT !.op = "unload_all_models", !.is_async = is_async],
                   "clear")
    /\ UNCHANGED <<session, scope_stack>>

\* get_model_description: the mode check, then list_loaded_models
get_model_description(is_async, model_id, may_load) ==
    /\ StartV1Only([NoCall EXCEPT !.op = "get_model_description",
                                  !.is_async = is_async, !.model_id = model_id,
                                  !.allow_loading = may_load],
                   "registry")
    /\ UNCHANGED <<session, scope_stack>>

\* the operations that resolve a model description through the registry
Describing == {"get_model_description", "infer", "infer_from_api_v1"}

\* mutant: the selected model wins over the per-call identifier
model_id_to_be_used_selected_first(c, selected) ==
    IF selected # None /\ selected # <<>> THEN selected ELSE c.model_id

\* the identifier the call works with: model_id or self.__selected_model
model_id_to_be_used(c, selected) ==
    IF c.model_id # None /\ c.model_id # <<>> THEN c.model_id ELSE selected

\* mutant: the model is never loaded, the first miss is final
describe_absent_never_loads ==
    /\ pc' = "done"
    /\ http' = Answered("absent")
    /\ outcome' = RaiseFromBody(call, "ModelNotInitializedError")
    /\ UNCHANGED <<model_description, allow_loading>>

\* get_model_description after the registry answered without the model:
\* load once and ask again with allow_loading=False, or give up
describe_absent ==
    IF allow_loading
    THEN /\ pc' = "add"
         /\ http' = [Answered("absent") EXCEPT
                        !.add = @ + 1,
                        !.loaded = model_id_to_be_used(call, selected_model)]
         /\ UNCHANGED <<outcome, model_description, allow_loading>>
    ELSE /\ pc' = "done"
         /\ http' = Answered("absent")
         /\ outcome' = RaiseFromBody(call, "ModelNotInitializedError")
         /\ UNCHANGED <<model_description, allow_loading>>

\* mutant: a failed registry request is sent again
registry_fails_retrying(failure) ==
    /\ pc = "registry"
    /\ pc' = "registry"
    /\ http' = [Answered(failure) EXCEPT !.registry = @ + 1]
    /\ UNCHANGED <<session, scope_stack, call, pre, allow_loading,
                   model_description, execvars, outcome>>

\* the registry answers a GET /model/registry with an error
registry_fails(failure) ==
    /\ pc = "registry"
    /\ pc' = "done"
    /\ \E response \in ResponsesOf(failure) :
           /\ http' = Failing(failure, response)
           /\ outcome' = call_error_from(
                             RaiseFromRegistryCall(call, TransportError(call.is_async, failure)),
                             response)
    /\ UNCHANGED <<session, scope_stack, call, pre, allow_loading,
                   model_description, execvars>>

\* list_loaded_models returns the registered models to its caller
registry_listed ==
    /\ pc = "registry"
    /\ call.op = "list_loaded_models"
    /\ pc' = "done"
    /\ http' = Answered("listed")
    /\ outcome' = Returned(TRUE, <<>>)
    /\ UNCHANGED <<session, scope_stack, call, pre, allow_loading,
                   model_description, execvars>>

\* get_model_description finds no matching model in the registry's answer
registry_without_model ==
    /\ pc = "registry"
    /\ call.op \in Describing
    /\ describe_absent
    /\ UNCHANGED <<session, scope_stack, call, pre, execvars>>

\* mutant: a failed load is passed over and the registry is asked again
add_fails_asking_again(failure) ==
    /\ pc = "add"
    /\ pc' = "registry"
    /\ allow_loading' = FALSE
    /\ http' = [Answered(failure) EXCEPT !.registry = @ + 1]
    /\ UNCHANGED <<session, scope_stack, call, pre, model_description, execvars,
                   outcome>>

\* POST /model/add answered with an error
add_fails(failure) ==
    /\ pc = "add"
    /\ pc' = "done"
    /\ \E response \in ResponsesOf(failure) :
           /\ http' = Failing(failure, response)
           /\ outcome' = call_error_from(
                             RaiseFromRegistryCall(call, TransportError(call.is_async, failure)),
                             response)
    /\ UNCHANGED <<session, scope_stack, call, pre, allow_loading,
                   model_description, execvars>>

\* load_model, lines 553-554: the selection after a successful load
load_model_selection(model_id, set_as_default, selected) ==
    IF set_as_default THEN model_id ELSE selected

\* POST /model/add succeeded for a load_model call
add_succeeds_load ==
    /\ pc = "add"
    /\ call.op = "load_model"
    /\ selected_model' = load_model_selection(call.model_id, call.set_as_default,
                                              selected_model)
    /\ pc' = "done"
    /\ http' = Answered("ok")
    /\ outcome' = Returned(TRUE, <<>>)
    /\ UNCHANGED <<api_url, client_mode, inference_configuration, scope_stack, call,
                   pre, allow_loading, model_description, execvars>>

\* mutant: the second frame may load again
describe_again_allowing ==
    /\ allow_loading' = allow_loading
    /\ pc' = "registry"
    /\ http' = [Answered("ok") EXCEPT !.registry = @ + 1]

\* the second get_model_description frame: allow_loading=False
describe_again ==
    /\ allow_loading' = FALSE
    /\ pc' = "registry"
    /\ http' = [Answered("ok") EXCEPT !.registry = @ + 1]

\* mutant: the model loaded on the way becomes the selected model
add_succeeds_describe_selecting ==
    /\ pc = "add"
    /\ call.op \in Describing
    /\ describe_again
    /\ selected_model' = http.loaded
    /\ UNCHANGED <<api_url, client_mode, inference_configuration, scope_stack, call,
                   pre, model_description, execvars, outcome>>

\* POST /model/add succeeded inside get_model_description
add_succeeds_describe ==
    /\ pc = "add"
    /\ call.op \in Describing
    /\ describe_again
    /\ UNCHANGED <<session, scope_stack, call, pre, model_description, execvars,
                   outcome>>

\* POST /model/remove answered with an error
remove_fails(failure) ==
    /\ pc = "remove"
    /\ pc' = "done"
    /\ \E response \in ResponsesOf(failure) :
           /\ http' = Failing(failure, response)
           /\ outcome' = call_error_from(
                             RaiseFromBody(call, TransportError(call.is_async, failure)),
                             response)
    /\ UNCHANGED <<session, scope_stack, call, pre, allow_loading,
                   model_description, execvars>>

\* mutant: the selection survives the unload of the selected model
unload_model_selection_kept(model_id, selected) == selected

\* unload_model, lines 590-591: the selection after a successful unload
unload_model_selection(model_id, selected) ==
    IF model_id = selected THEN None ELSE selected

remove_succeeds ==
    /\ pc = "remove"
    /\ selected_model' = unload_model_selection(call.model_id, selected_model)
    /\ pc' = "done"
    /\ http' = Answered("ok")
    /\ outcome' = Returned(TRUE, <<>>)
    /\ UNCHANGED <<api_url, client_mode, inference_configuration, scope_stack, call,
                   pre, allow_loading, model_description, execvars>>

\* POST /model/clear answered with an error
clear_fails(failure) ==
    /\ pc = "clear"
    /\ pc' = "done"
    /\ \E response \in ResponsesOf(failure) :
           /\ http' = Failing(failure, response)
           /\ outcome' = call_error_from(
                             RaiseFromBody(call, TransportError(call.is_async, failure)),
                             response)
    /\ UNCHANGED <<session, scope_stack, call, pre, allow_loading,
                   model_description, execvars>>

\* unload_all_models, line 617: the selection after a successful clear
unload_all_models_selection(selected) == None

clear_succeeds ==
    /\ pc = "clear"
    /\ selected_model' = unload_all_models_selection(selected_model)
    /\ pc' = "done"
    /\ http' = Answered("ok")
    /\ outcome' = Returned(TRUE, <<>>)
    /\ UNCHANGED <<api_url, client_mode, inference_configuration, scope_stack, call,
                   pre, allow_loading, model_description, execvars>>

\* the caller takes the result (or catches the error); the client is idle again
call_ends ==
    /\ pc = "done"
    /\ pc' = "idle"
    /\ call' = NoCall
    /\ pre' = NoSnapshot
    /\ allow_loading' = TRUE
    /\ model_description' = NoDescription
    /\ requests_data' = <<>>
    /\ status' = <<>>
    /\ responses' = <<>>
    /\ sent' = <<>>
    /\ http' = NoHttp
    /\ outcome' = NoOutcome
    /\ UNCHANGED <<session, scope_stack>>

\* call_ends, with the description the call resolved kept for the
\* properties that follow two calls in a row
call_ends_remembering ==
    /\ pc = "done"
    /\ pc' = "idle"
    /\ call' = NoCall
    /\ pre' = NoSnapshot
    /\ allow_loading' = TRUE
    /\ model_description' = NoDescription
    /\ requests_data' = <<>>
    /\ status' = <<>>
    /\ responses' = <<>>
    /\ sent' = <<>>
    /\ http' = [NoHttp EXCEPT !.previous = model_description]
    /\ outcome' = NoOutcome
    /\ UNCHANGED <<session, scope_stack>>

(* --------------------------- request building ------------------------- *)

\* the loader's scaling factor (resized / original, as <<num, den>>) of the
\* i-th image of a list: the first is untouched, the i-th shrunk i times
factor_of(i) == <<1, i>>

\* an inference input: one image, or a list of 1..MaxImages images; the
\* loader's scaling factor of each image stands for the image
InferenceInputs ==
    [is_list : {FALSE}, sfs : [1..1 -> ScalingFactors]] \cup
    {[is_list |-> TRUE, sfs |-> [i \in 1..n |-> factor_of(i)]] : n \in 1..MaxImages}

\* load_static_inference_input: per image, the encoded image (named by its
\* position in the input) and its scaling factor; for the properties, the
\* (max_height, max_width) the loader was called with
load_static_inference_input(c, max_size) ==
    [i \in 1..Len(c.sfs) |->
        [image |-> i, scaling_factor |-> c.sfs[i], max_size |-> max_size]]

\* consecutive groups of at most batch_size elements, in order
RECURSIVE make_batches(_, _)
make_batches(seq, batch_size) ==
    IF Len(seq) = 0 THEN <<>>
    ELSE IF Len(seq) <= batch_size THEN <<seq>>
    ELSE <<SubSeq(seq, 1, batch_size)>>
         \o make_batches(SubSeq(seq, batch_size + 1, Len(seq)), batch_size)

\* prepare_requests_data: one package per group, carrying its slice of the
\* images and the scaling factors aligned by position
prepare_requests_data(url, encoded_inference_inputs, payload, max_batch_size) ==
    LET batches == make_batches(encoded_inference_inputs, max_batch_size)
    IN  [j \in 1..Len(batches) |->
            [url |-> url,
             payload |-> payload,
             images |-> [k \in 1..Len(batches[j]) |-> batches[j][k].image],
             max_input_size |-> batches[j][1].max_size,
             image_scaling_factors |->
                 [k \in 1..Len(batches[j]) |-> batches[j][k].scaling_factor]]]

\* the code path an image-posting call takes
Pipeline(c, mode) ==
    CASE c.op = "infer" -> (IF mode = V0 THEN "v0" ELSE "v1")
      [] c.op = "infer_from_api_v0" -> "v0"
      [] c.op = "infer_from_api_v1" -> "v1"
      [] c.op = "ocr_image" -> "ocr"
      [] OTHER -> "post_images"

\* mutant: the legacy path batches by the configured size
v0_max_batch_size_configured(cfg) == cfg.max_batch_size

\* max_batch_size handed to prepare_requests_data by infer_from_api_v0
v0_max_batch_size(cfg) == 1

\* ... by ocr_image
ocr_max_batch_size(cfg) == 1

\* mutant: the batch ceiling is exceeded by one
v1_max_batch_size_exceeded(cfg) == cfg.max_batch_size + 1

\* ... by infer_from_api_v1
v1_max_batch_size(cfg) == cfg.max_batch_size

\* ... by _post_images
post_images_max_batch_size(cfg) == cfg.max_batch_size

max_batch_size_of(pipeline, cfg) ==
    CASE pipeline = "v0" -> v0_max_batch_size(cfg)
      [] pipeline = "ocr" -> ocr_max_batch_size(cfg)
      [] pipeline = "v1" -> v1_max_batch_size(cfg)
      [] OTHER -> post_images_max_batch_size(cfg)

\* the packages of the call c
build_requests_data(c, mode, cfg, url, payload, max_size) ==
    prepare_requests_data(url, load_static_inference_input(c, max_size), payload,
                          max_batch_size_of(Pipeline(c, mode), cfg))

\* url=f"{self.__api_url}/{model_id_chunks[0]}/{model_id_chunks[1]}"
legacy_url(base, model_id_chunks) ==
    [api_url |-> base, path |-> <<model_id_chunks[1], model_id_chunks[2]>>,
     query |-> <<>>]

\* url=f"{self.__api_url}{endpoint}"
endpoint_url(base, endpoint) ==
    [api_url |-> base, path |-> <<endpoint>>, query |-> <<>>]

\* a payload without model_id (payload=None, or __initialise_payload() alone)
NoPayload == [model_id |-> None, api_key |-> FALSE]

\* mutant: the payload carries the key in either mode
initialise_payload_with_key(mode) == [model_id |-> None, api_key |-> TRUE]

\* __initialise_payload: {"api_key": ...} unless the mode is Legacy
initialise_payload(mode) == [model_id |-> None, api_key |-> mode # V0]

\* __wrap_url_with_api_key: "?api_key=..." appended in Legacy mode only
wrap_url_with_api_key(mode, url) ==
    IF mode # V0 THEN url ELSE [url EXCEPT !.query = <<"api_key">>]

\* (max_height, max_width) of a loader call that names neither
NoMaxSize == <<NoSize, NoSize>>

\* mutant: the model's size is taken as soon as one of its dimensions is set
determine_client_downsizing_parameters_of_either(client_downsizing_disabled, description, default_max_input_size) ==
    IF client_downsizing_disabled THEN NoMaxSize
    ELSE IF \/ description = NoDescription
            \/ (description.input_height = NoSize /\ description.input_width = NoSize)
    THEN <<default_max_input_size, default_max_input_size>>
    ELSE <<description.input_height, description.input_width>>

\* _determine_client_downsizing_parameters; a model_description of None is
\* NoDescription
determine_client_downsizing_parameters(client_downsizing_disabled, description, default_max_input_size) ==
    IF client_downsizing_disabled THEN NoMaxSize
    ELSE IF \/ description = NoDescription
            \/ description.input_height = NoSize
            \/ description.input_width = NoSize
    THEN <<default_max_input_size, default_max_input_size>>
    ELSE <<description.input_height, description.input_width>>

\* the call loads its input with max_size as (max_height, max_width) and
\* hands its packages to execute_requests_packages
start_executor_loading(c, url, payload, max_size) ==
    LET packages == build_requests_data(c, client_mode, inference_configuration,
                                        url, payload, max_size)
    IN  /\ requests_data' = packages
        /\ status' = [j \in 1..Len(packages) |-> "pending"]
        /\ responses' = [j \in 1..Len(packages) |->
                             [kind |-> "none", preds |-> <<>>, error |-> NoResponse]]
        /\ sent' = [j \in 1..Len(packages) |-> 0]
        /\ pc' = "exec"

\* the same for the operations that call the loader without a maximum size
start_executor(c, url, payload) == start_executor_loading(c, url, payload, NoMaxSize)

\* str.split("/")
RECURSIVE split(_)
split(str) ==
    IF \A i \in 1..Len(str) : str[i] # "/" THEN <<str>>
    ELSE LET i == CHOOSE k \in 1..Len(str) :
                      str[k] = "/" /\ \A l \in 1..(k - 1) : str[l] # "/"
         IN  <<SubSeq(str, 1, i - 1)>> \o split(SubSeq(str, i + 1, Len(str)))

(* ----------------------------- inference ------------------------------ *)

InferenceCall(op, is_async, model_id, input) ==
    [NoCall EXCEPT !.op = op, !.is_async = is_async, !.model_id = model_id,
                   !.is_list = input.is_list, !.sfs = input.sfs]

\* mutant: an identifier of more than two parts is let through
start_v0_accepting_longer(c) ==
    LET model_id == model_id_to_be_used(c, selected_model)
    IN  IF model_id = None
        THEN StartRaising(c, "ModelNotSelectedError")
        ELSE IF Len(split(model_id)) < 2
        THEN StartRaising(c, "InvalidModelIdentifier")
        ELSE /\ pc = "idle"
             /\ call' = c
             /\ pre' = Snapshot
             /\ start_executor_loading(
                    c, legacy_url(api_url, split(model_id)), NoPayload,
                    determine_client_downsizing_parameters(
                        inference_configuration.client_downsizing_disabled,
                        NoDescription,
                        inference_configuration.default_max_input_size))
             /\ UNCHANGED <<allow_loading, model_description, http, outcome>>

\* infer_from_api_v0 up to execute_requests_packages
start_v0(c) ==
    LET model_id == model_id_to_be_used(c, selected_model)
    IN  IF model_id = None
        THEN StartRaising(c, "ModelNotSelectedError")
        ELSE IF Len(split(model_id)) # 2
        THEN StartRaising(c, "InvalidModelIdentifier")
        ELSE /\ pc = "idle"
             /\ call' = c
             /\ pre' = Snapshot
             /\ start_executor_loading(
                    c, legacy_url(api_url, split(model_id)), NoPayload,
                    determine_client_downsizing_parameters(
                        inference_configuration.client_downsizing_disabled,
                        NoDescription,
                        inference_configuration.default_max_input_size))
             /\ UNCHANGED <<allow_loading, model_description, http, outcome>>

\* mutant: the description the previous call resolved is kept and used again
start_v1_cached(c) ==
    IF ~ensure_v1_client_mode
    THEN StartRaising(c, "WrongClientModeError")
    ELSE IF model_id_to_be_used(c, selected_model) = None
    THEN StartRaising(c, "ModelNotSelectedError")
    ELSE IF /\ http.previous.model_id = model_id_to_be_used(c, selected_model)
            /\ http.previous.task_type \in NEW_INFERENCE_ENDPOINTS
    THEN /\ pc = "idle"
         /\ call' = c
         /\ pre' = Snapshot
         /\ model_description' = http.previous
         /\ start_executor_loading(
                c,
                endpoint_url(api_url, new_inference_endpoint(http.previous.task_type)),
                [model_id |-> model_id_to_be_used(c, selected_model), api_key |-> TRUE],
                determine_client_downsizing_parameters(
                    inference_configuration.client_downsizing_disabled,
                    http.previous,
                    inference_configuration.default_max_input_size))
         /\ UNCHANGED <<allow_loading, http, outcome>>
    ELSE StartRequest(c, "registry")

\* mutant: the selection is looked at before the mode
start_v1_selection_first(c) ==
    IF model_id_to_be_used(c, selected_model) = None
    THEN StartRaising(c, "ModelNotSelectedError")
    ELSE IF ~ensure_v1_client_mode
    THEN StartRaising(c, "WrongClientModeError")
    ELSE StartRequest(c, "registry")

\* infer_from_api_v1 up to the first registry request
start_v1(c) ==
    IF ~ensure_v1_client_mode
    THEN StartRaising(c, "WrongClientModeError")
    ELSE IF model_id_to_be_used(c, selected_model) = None
    THEN StartRaising(c, "ModelNotSelectedError")
    ELSE StartRequest(c, "registry")

\* mutant: the dispatch on the mode is inverted
infer_dispatch_inverted(is_async, model_id, input) ==
    /\ IF client_mode = V1
       THEN start_v0(InferenceCall("infer", is_async, model_id, input))
       ELSE start_v1(InferenceCall("infer", is_async, model_id, input))
    /\ UNCHANGED <<session, scope_stack>>

infer(is_async, model_id, input) ==
    /\ IF client_mode = V0
       THEN start_v0(InferenceCall("infer", is_async, model_id, input))
       ELSE start_v1(InferenceCall("infer", is_async, model_id, input))
    /\ UNCHANGED <<session, scope_stack>>

infer_from_api_v0(is_async, model_id, input) ==
    /\ start_v0(InferenceCall("infer_from_api_v0", is_async, model_id, input))
    /\ UNCHANGED <<session, scope_stack>>

infer_from_api_v1(is_async, model_id, input) ==
    /\ start_v1(InferenceCall("infer_from_api_v1", is_async, model_id, input))
    /\ UNCHANGED <<session, scope_stack>>

\* the registry's answer holds the model with its task type and its
\* (input_height, input_width): get_model_description returns it,
\* infer_from_api_v1 goes on to build and dispatch its packages
registry_describes(task_type, input_size) ==
    LET description == [model_id |-> model_id_to_be_used(call, selected_model),
                        task_type |-> task_type,
                        input_height |-> input_size[1],
                        input_width |-> input_size[2]]
    IN
    /\ pc = "registry"
    /\ call.op \in Describing
    /\ model_description' = description
    /\ IF call.op = "get_model_description"
       THEN /\ pc' = "done"
            /\ outcome' = Returned(TRUE, <<>>)
            /\ UNCHANGED execvars
       ELSE IF task_type \notin NEW_INFERENCE_ENDPOINTS
       THEN /\ pc' = "done"
            /\ outcome' = RaiseFromBody(call, "ModelTaskTypeNotSupportedError")
            /\ UNCHANGED execvars
       ELSE /\ start_executor_loading(
                   call,
                   endpoint_url(api_url, new_inference_endpoint(task_type)),
                   [model_id |-> model_id_to_be_used(call, selected_model),
                    api_key |-> TRUE],
                   determine_client_downsizing_parameters(
                       inference_configuration.client_downsizing_disabled,
                       description,
                       inference_configuration.default_max_input_size))
            /\ UNCHANGED outcome
    /\ http' = Answered("present")
    /\ UNCHANGED <<session, scope_stack, call, pre, allow_loading>>

\* the same for a model whose description sets no input size
registry_with_model(task_type) == registry_describes(task_type, NoMaxSize)

(* ------------------------- auxiliary endpoints ------------------------ *)

\* ocr_image: no mode check, one image per request
ocr_image(is_async, input) ==
    /\ pc = "idle"
    /\ call' = InferenceCall("ocr_image", is_async, None, input)
    /\ pre' = Snapshot
    /\ start_executor(InferenceCall("ocr_image", is_async, None, input),
                      wrap_url_with_api_key(client_mode,
                                            endpoint_url(api_url, <<"/doctr/ocr">>)),
                      initialise_payload(client_mode))
    /\ UNCHANGED <<session, scope_stack, allow_loading, model_description, http,
                   outcome>>

\* detect_gazes: Current-only, then _post_images
detect_gazes(is_async, input) ==
    /\ IF ensure_v1_client_mode
       THEN /\ pc = "idle"
            /\ call' = InferenceCall("detect_gazes", is_async, None, input)
            /\ pre' = Snapshot
            /\ start_executor(InferenceCall("detect_gazes", is_async, None, input),
                              wrap_url_with_api_key(
                                  client_mode,
                                  endpoint_url(api_url, <<"/gaze/gaze_detection">>)),
                              initialise_payload(client_mode))
            /\ UNCHANGED <<allow_loading, model_description, http, outcome>>
       ELSE StartRaising(InferenceCall("detect_gazes", is_async, None, input),
                         "WrongClientModeError")
    /\ UNCHANGED <<session, scope_stack>>

\* prompt_cogvlm: Current-only, one image, one request
prompt_cogvlm(input) ==
    /\ ~input.is_list
    /\ StartV1Only(InferenceCall("prompt_cogvlm", FALSE, None, input), "post")
    /\ UNCHANGED <<session, scope_stack>>

post_fails(failure) ==
    /\ pc = "post"
    /\ pc' = "done"
    /\ \E response \in ResponsesOf(failure) :
           /\ http' = Failing(failure, response)
           /\ outcome' = call_error_from(
                             RaiseFromBody(call, TransportError(call.is_async, failure)),
                             response)
    /\ UNCHANGED <<session, scope_stack, call, pre, allow_loading,
                   model_description, execvars>>

post_succeeds ==
    /\ pc = "post"
    /\ pc' = "done"
    /\ http' = Answered("ok")
    /\ outcome' = Returned(TRUE, <<>>)
    /\ UNCHANGED <<session, scope_stack, call, pre, allow_loading,
                   model_description, execvars>>

\* get_clip_image_embeddings: _post_images in either mode
get_clip_image_embeddings(is_async, input) ==
    /\ pc = "idle"
    /\ call' = InferenceCall("get_clip_image_embeddings", is_async, None, input)
    /\ pre' = Snapshot
    /\ start_executor(InferenceCall("get_clip_image_embeddings", is_async, None, input),
                      wrap_url_with_api_key(
                          client_mode, endpoint_url(api_url, <<"/clip/embed_image">>)),
                      initialise_payload(client_mode))
    /\ UNCHANGED <<session, scope_stack, allow_loading, model_description, http,
                   outcome>>

\* mutant: the request is sent before the argument types are looked at
clip_compare_validating_late(is_async, subject_type, prompt_type) ==
    LET c == [NoCall EXCEPT !.op = "clip_compare", !.is_async = is_async]
    IN  /\ IF subject_type \notin CLIP_ARGUMENT_TYPES
              \/ prompt_type \notin CLIP_ARGUMENT_TYPES
           THEN /\ pc = "idle"
                /\ call' = c
                /\ pre' = Snapshot
                /\ pc' = "done"
                /\ http' = [NoHttp EXCEPT !.post = 1]
                /\ outcome' = RaiseFromBody(c, "InvalidParameterError")
                /\ UNCHANGED <<allow_loading, model_description, execvars>>
           ELSE StartRequest(c, "post")
        /\ UNCHANGED <<session, scope_stack>>

\* the request clip_compare builds: load_static_inference_input runs for the
\* subject and for the prompt when their type is "image"
clip_compare_request(subject_type, prompt_type) ==
    [url |-> wrap_url_with_api_key(client_mode,
                                   endpoint_url(api_url, <<"/clip/compare">>)),
     api_key |-> initialise_payload(client_mode).api_key,
     specification |-> None,
     loaded_inputs |-> (IF subject_type = "image" THEN {"subject"} ELSE {})
                       \cup (IF prompt_type = "image" THEN {"prompt"} ELSE {})]

\* mutant: only the subject's type is validated
clip_compare_checking_subject_only(is_async, subject_type, prompt_type) ==
    LET c == [NoCall EXCEPT !.op = "clip_compare", !.is_async = is_async,
                            !.subject_type = subject_type,
                            !.prompt_type = prompt_type]
    IN  /\ IF subject_type \notin CLIP_ARGUMENT_TYPES
           THEN StartRaising(c, "InvalidParameterError")
           ELSE /\ pc = "idle"
                /\ call' = c
                /\ pre' = Snapshot
                /\ pc' = "post"
                /\ http' = [NoHttp EXCEPT
                               !.post = 1,
                               !.previous = http.previous,
                               !.posted = clip_compare_request(subject_type, prompt_type)]
                /\ allow_loading' = c.allow_loading
                /\ UNCHANGED <<model_description, execvars, outcome>>
        /\ UNCHANGED <<session, scope_stack>>

\* clip_compare: the argument types are validated, then the images are
\* loaded and one request is sent
clip_compare(is_async, subject_type, prompt_type) ==
    LET c == [NoCall EXCEPT !.op = "clip_compare", !.is_async = is_async,
                            !.subject_type = subject_type,
                            !.prompt_type = prompt_type]
    IN  /\ IF subject_type \notin CLIP_ARGUMENT_TYPES
              \/ prompt_type \notin CLIP_ARGUMENT_TYPES
           THEN StartRaising(c, "InvalidParameterError")
           ELSE /\ pc = "idle"
                /\ call' = c
                /\ pre' = Snapshot
                /\ pc' = "post"
                /\ http' = [NoHttp EXCEPT
                               !.post = 1,
                               !.previous = http.previous,
                               !.posted = clip_compare_request(subject_type, prompt_type)]
                /\ allow_loading' = c.allow_loading
                /\ UNCHANGED <<model_description, execvars, outcome>>
        /\ UNCHANGED <<session, scope_stack>>

\* the names and the specification handed to infer_from_workflow
WorkspaceNames == {None, <<"workspace">>}

WorkflowNames == {None, <<"workflow">>}

WorkflowSpecifications == {None, <<"specification">>}

\* mutant: one of the two names is enough
named_workflow_specified_by_either(workspace_name, workflow_name) ==
    workspace_name # None \/ workflow_name # None

named_workflow_specified(workspace_name, workflow_name) ==
    workspace_name # None /\ workflow_name # None

\* f"{self.__api_url}/infer/workflows/{workspace_name}/{workflow_name}"
workflow_url(base, workspace_name, workflow_name) ==
    [api_url |-> base, path |-> <<<<"/infer/workflows">>, workspace_name, workflow_name>>,
     query |-> <<>>]

\* infer_from_workflow: the parameter check, then one request (the images
\* and parameters merged into the payload take no part in either)
infer_from_workflow(workspace_name, workflow_name, workflow_specification) ==
    LET c == [NoCall EXCEPT !.op = "infer_from_workflow",
                            !.workspace_name = workspace_name,
                            !.workflow_name = workflow_name,
                            !.workflow_specification = workflow_specification]
    IN  /\ IF ~(named_workflow_specified(workspace_name, workflow_name)
                   # (workflow_specification # None))
           THEN StartRaising(c, "InvalidParameterError")
           ELSE /\ pc = "idle"
                /\ call' = c
                /\ pre' = Snapshot
                /\ pc' = "post"
                /\ http' = [NoHttp EXCEPT
                               !.post = 1,
                               !.previous = http.previous,
                               !.posted =
                                   [url |-> IF workflow_specification # None
                                            THEN endpoint_url(api_url, <<"/infer/workflows">>)
                                            ELSE workflow_url(api_url, workspace_name,
                                                              workflow_name),
                                    api_key |-> TRUE,
                                    specification |-> workflow_specification,
                                    loaded_inputs |-> {}]]
                /\ allow_loading' = c.allow_loading
                /\ UNCHANGED <<model_description, execvars, outcome>>
        /\ UNCHANGED <<session, scope_stack>>

(* ----------------------------- dispatch ------------------------------- *)

InFlight == {j \in 1..Len(status) : status[j] = "inflight"}

Pending == {j \in 1..Len(status) : status[j] = "pending"}

Failed == {j \in 1..Len(status) : status[j] = "failed"}

\* mutant: one request more than configured may be in flight
max_concurrent_requests_exceeded(cfg) == cfg.max_concurent_requests + 1

\* mutant: a ceiling of zero, no request may be in flight
max_concurrent_requests_none(cfg) == 0

\* max_concurrent_requests handed to execute_requests_packages
max_concurrent_requests(cfg) == cfg.max_concurent_requests

\* execute_requests_packages: the next package is sent while fewer than
\* max_concurrent_requests are in flight and nothing has failed
dispatch(j) ==
    /\ pc = "exec"
    /\ j \in Pending
    /\ \A k \in Pending : j <= k
    /\ Failed = {}
    /\ Cardinality(InFlight) < max_concurrent_requests(inference_configuration)
    /\ status' = [status EXCEPT ![j] = "inflight"]
    /\ sent' = [sent EXCEPT ![j] = @ + 1]
    /\ http' = [http EXCEPT !.post = @ + 1]
    /\ UNCHANGED <<session, scope_stack, pc, call, pre, allow_loading,
                   model_description, requests_data, responses, outcome>>

\* what a backend may answer to a package. The legacy endpoint answers its
\* single image with one object; a Current inference endpoint with one
\* prediction per image in a list, with a single object, or with a list that
\* is one prediction short; an auxiliary endpoint with one JSON document
Answers(pipeline, package) ==
    CASE pipeline = "v0" -> {[kind |-> "object", preds |-> <<package.images[1]>>,
                              error |-> NoResponse]}
      [] pipeline = "v1" ->
            {[kind |-> "list", preds |-> package.images, error |-> NoResponse],
             [kind |-> "object", preds |-> <<package.images[1]>>,
              error |-> NoResponse],
             [kind |-> "list",
              preds |-> SubSeq(package.images, 1, Len(package.images) - 1),
              error |-> NoResponse]}
      [] OTHER -> {[kind |-> "list", preds |-> package.images, error |-> NoResponse]}

\* the answer keeps the backend's contract: one prediction per image
Conforms(package, answer) ==
    /\ answer.preds = package.images
    /\ answer.kind = "object" => Len(package.images) = 1

\* package j completes while an earlier package is still in flight
Overtakes(j) == \E k \in InFlight : k < j

\* the response of package j arrives; it is kept at position j
completes(j, answer) ==
    /\ pc = "exec"
    /\ j \in InFlight
    /\ status' = [status EXCEPT ![j] = "ok"]
    /\ responses' = [responses EXCEPT ![j] = answer]
    /\ http' = [http EXCEPT !.out_of_order = @ \/ Overtakes(j)]
    /\ UNCHANGED <<session, scope_stack, pc, call, pre, allow_loading,
                   model_description, requests_data, sent, outcome>>

\* the request of package j fails
fails(j, failure) ==
    /\ pc = "exec"
    /\ j \in InFlight
    /\ status' = [status EXCEPT ![j] = "failed"]
    /\ \E response \in ResponsesOf(failure) :
           responses' = [responses EXCEPT
                            ![j] = [kind |-> failure, preds |-> <<>>,
                                    error |-> response]]
    /\ http' = [http EXCEPT !.out_of_order = @ \/ Overtakes(j)]
    /\ UNCHANGED <<session, scope_stack, pc, call, pre, allow_loading,
                   model_description, requests_data, sent, outcome>>

\* the first failure, by position, is raised once nothing is in flight
executor_raises ==
    /\ pc = "exec"
    /\ Failed # {}
    /\ InFlight = {}
    /\ LET j == CHOOSE k \in Failed : \A l \in Failed : k <= l
       IN  /\ outcome' = call_error_from(
                             RaiseFromBody(call, TransportError(call.is_async,
                                                                responses[j].kind)),
                             responses[j].error)
           /\ http' = [http EXCEPT !.failure = responses[j].kind,
                                   !.error_response = responses[j].error]
    /\ pc' = "done"
    /\ UNCHANGED <<session, scope_stack, call, pre, allow_loading,
                   model_description, execvars>>

(* --------------------------- normalisation ---------------------------- *)

\* the scaling factor no correction was made with
Uncorrected == <<0, 0>>

\* the spatial coordinates of a prediction as the backend sends it, in the
\* coordinate space of the resized image
PredictedCoordinates == <<12, 7>>

RECURSIVE GCD(_, _)
GCD(a, b) == IF b = 0 THEN a ELSE GCD(b, a % b)

\* the number num / den, as <<num, den>> in lowest terms
Ratio(num, den) == <<num \div GCD(num, den), den \div GCD(num, den)>>

\* adjust_prediction_to_client_scaling_factor: every spatial coordinate
\* divided by the scaling factor
adjust_prediction_to_client_scaling_factor(prediction, scaling_factor) ==
    [k \in 1..Len(prediction) |->
        Ratio(prediction[k] * scaling_factor[2], scaling_factor[1])]

\* a response element returned as it was decoded
decoded(prediction) == [k \in 1..Len(prediction) |-> Ratio(prediction[k], 1)]

\* mutant: every element of a response is corrected with the first factor
zip_with_first_factor(preds, factors) ==
    [k \in 1..(IF Len(preds) < Len(factors) THEN Len(preds) ELSE Len(factors)) |->
        [images |-> <<preds[k]>>, scaling_factor |-> factors[1],
         coordinates |-> adjust_prediction_to_client_scaling_factor(
                             PredictedCoordinates, factors[1])]]

\* zip(parsed_response, request_data.image_scaling_factors): each element
\* corrected with the factor at its own position
zip_with_factors(preds, factors) ==
    [k \in 1..(IF Len(preds) < Len(factors) THEN Len(preds) ELSE Len(factors)) |->
        [images |-> <<preds[k]>>, scaling_factor |-> factors[k],
         coordinates |-> adjust_prediction_to_client_scaling_factor(
                             PredictedCoordinates, factors[k])]]

\* mutant: the results of later packages are put first
RECURSIVE v1_results_latest_first(_, _)
v1_results_latest_first(packages, answers) ==
    IF Len(packages) = 0 \/ Len(answers) = 0 THEN <<>>
    ELSE v1_results_latest_first(Tail(packages), Tail(answers))
         \o zip_with_factors(Head(answers).preds, Head(packages).image_scaling_factors)

\* infer_from_api_v1, lines 392-411: the loop over zip(requests_data, responses)
RECURSIVE v1_results(_, _)
v1_results(packages, answers) ==
    IF Len(packages) = 0 \/ Len(answers) = 0 THEN <<>>
    ELSE zip_with_factors(Head(answers).preds, Head(packages).image_scaling_factors)
         \o v1_results(Tail(packages), Tail(answers))

\* mutant: the decoded responses are returned without the correction
RECURSIVE v0_results_as_decoded(_, _)
v0_results_as_decoded(packages, answers) ==
    IF Len(packages) = 0 \/ Len(answers) = 0 THEN <<>>
    ELSE <<[images |-> Head(answers).preds,
            scaling_factor |-> Head(packages).image_scaling_factors[1],
            coordinates |-> decoded(PredictedCoordinates)]>>
         \o v0_results_as_decoded(Tail(packages), Tail(answers))

\* infer_from_api_v0, lines 270-284: one result per (package, response),
\* corrected with image_scaling_factors[0]
RECURSIVE v0_results(_, _)
v0_results(packages, answers) ==
    IF Len(packages) = 0 \/ Len(answers) = 0 THEN <<>>
    ELSE <<[images |-> Head(answers).preds,
            scaling_factor |-> Head(packages).image_scaling_factors[1],
            coordinates |-> adjust_prediction_to_client_scaling_factor(
                                PredictedCoordinates,
                                Head(packages).image_scaling_factors[1])]>>
         \o v0_results(Tail(packages), Tail(answers))

\* ocr_image and _post_images: results = [r.json() for r in responses]
json_results(answers) ==
    [j \in 1..Len(answers) |-> [images |-> answers[j].preds,
                                scaling_factor |-> Uncorrected,
                                coordinates |-> decoded(PredictedCoordinates)]]

\* the results list of the call, before unwrapping
results_of(c, mode, packages, answers) ==
    CASE Pipeline(c, mode) = "v0" -> v0_results(packages, answers)
      [] Pipeline(c, mode) = "v1" -> v1_results(packages, answers)
      [] OTHER -> json_results(answers)

\* unwrap_single_element_list(sequence): whether the value handed back is
\* the single element instead of the sequence
unwrap_single_element_list(sequence) == Len(sequence) = 1

\* mutant: the results list is returned as it is
final_result_not_unwrapped(results) == Returned(FALSE, results)

\* return unwrap_single_element_list(sequence=results)
final_result(results) == Returned(unwrap_single_element_list(results), results)

\* mutant: failed packages are skipped and what succeeded is returned
executor_returns_skipping_failures ==
    /\ pc = "exec"
    /\ InFlight = {}
    /\ Failed # {} \/ Pending = {}
    /\ outcome' = final_result(results_of(call, client_mode, requests_data, responses))
    /\ pc' = "done"
    /\ UNCHANGED <<session, scope_stack, call, pre, allow_loading,
                   model_description, execvars, http>>

\* every package succeeded: the responses are normalised and returned
executor_returns ==
    /\ pc = "exec"
    /\ \A j \in 1..Len(status) : status[j] = "ok"
    /\ outcome' = final_result(results_of(call, client_mode, requests_data, responses))
    /\ pc' = "done"
    /\ UNCHANGED <<session, scope_stack, call, pre, allow_loading,
                   model_description, execvars, http>>

(* -------------------------- scoped overrides -------------------------- *)

\* the session field a scope overrides
FieldValue(field) ==
    CASE field = "configuration" -> inference_configuration
      [] field = "mode" -> client_mode
      [] field = "model" -> selected_model

\* a scope, as entered: `previous` is the context manager's local
\* previous_configuration / previous_client_mode / previous_model;
\* for the properties, `override` records the value the scope was entered
\* with, `before` the value the field had just before, and `entered` and
\* `exited` the place of its entry and of its exit among the entries and
\* exits so far (exited = 0 while the scope is open)
Exits(stack) == Cardinality({k \in 1..Len(stack) : stack[k].exited # 0})

Scope(field, previous, override) ==
    [field |-> field, previous |-> previous, override |-> override,
     before |-> FieldValue(field),
     entered |-> Len(scope_stack) + Exits(scope_stack) + 1, exited |-> 0]

use_configuration(cfg) ==
    /\ pc = "idle"
    /\ Len(scope_stack) < MaxScopeDepth
    /\ scope_stack' = Append(scope_stack,
                             Scope("configuration", inference_configuration, cfg))
    /\ inference_configuration' = cfg
    /\ UNCHANGED <<api_url, client_mode, selected_model, callvars>>

use_api_v0 ==
    /\ pc = "idle"
    /\ Len(scope_stack) < MaxScopeDepth
    /\ scope_stack' = Append(scope_stack, Scope("mode", client_mode, V0))
    /\ client_mode' = V0
    /\ UNCHANGED <<api_url, selected_model, inference_configuration, callvars>>

use_api_v1 ==
    /\ pc = "idle"
    /\ Len(scope_stack) < MaxScopeDepth
    /\ scope_stack' = Append(scope_stack, Scope("mode", client_mode, V1))
    /\ client_mode' = V1
    /\ UNCHANGED <<api_url, selected_model, inference_configuration, callvars>>

\* mutant: a scope entered inside an open scope of the same field takes
\* over that scope's saved value
use_model_saving_outermost(model_id) ==
    /\ pc = "idle"
    /\ Len(scope_stack) < MaxScopeDepth
    /\ LET open == {k \in 1..Len(scope_stack) :
                       scope_stack[k].field = "model" /\ scope_stack[k].exited = 0}
       IN  scope_stack' =
               Append(scope_stack,
                      Scope("model",
                            IF open = {} THEN selected_model
                            ELSE scope_stack[CHOOSE k \in open : TRUE].previous,
                            model_id))
    /\ selected_model' = model_id
    /\ UNCHANGED <<api_url, client_mode, inference_configuration, callvars>>

use_model(model_id) ==
    /\ pc = "idle"
    /\ Len(scope_stack) < MaxScopeDepth
    /\ scope_stack' = Append(scope_stack, Scope("model", selected_model, model_id))
    /\ selected_model' = model_id
    /\ UNCHANGED <<api_url, client_mode, inference_configuration, callvars>>

\* mutant: the saved value is written back only when the field still holds
\* the override
restore_unless_changed(scope) ==
    IF FieldValue(scope.field) = scope.override
    THEN /\ inference_configuration' =
                IF scope.field = "configuration" THEN scope.previous
                ELSE inference_configuration
         /\ client_mode' = IF scope.field = "mode" THEN scope.previous ELSE client_mode
         /\ selected_model' = IF scope.field = "model" THEN scope.previous
                              ELSE selected_model
    ELSE UNCHANGED <<inference_configuration, client_mode, selected_model>>

\* the finally clause of the innermost scope
restore(scope) ==
    /\ inference_configuration' =
           IF scope.field = "configuration" THEN scope.previous
           ELSE inference_configuration
    /\ client_mode' = IF scope.field = "mode" THEN scope.previous ELSE client_mode
    /\ selected_model' = IF scope.field = "model" THEN scope.previous ELSE selected_model

\* the body of the innermost scope ends normally
scope_exit ==
    /\ pc = "idle"
    /\ scope_stack # <<>>
    /\ restore(scope_stack[Len(scope_stack)])
    /\ scope_stack' = SubSeq(scope_stack, 1, Len(scope_stack) - 1)
    /\ UNCHANGED <<api_url, callvars>>

\* the call site of the k-th scope entered leaves it, whether or not it
\* is the innermost: call sites sharing the client interleave their scopes.
\* The scope is kept, marked as exited, for the properties
scope_exit_interleaved(k) ==
    /\ pc = "idle"
    /\ k \in 1..Len(scope_stack)
    /\ scope_stack[k].exited = 0
    /\ restore(scope_stack[k])
    /\ scope_stack' = [scope_stack EXCEPT
                          ![k].exited = Len(scope_stack) + Exits(scope_stack) + 1]
    /\ UNCHANGED <<api_url, callvars>>

\* mutant: the restoring assignment is not in a finally clause, so an error
\* leaves the scope without it
scope_exit_on_error_without_finally ==
    /\ pc = "done"
    /\ outcome.kind = "raise"
    /\ scope_stack # <<>>
    /\ scope_stack' = SubSeq(scope_stack, 1, Len(scope_stack) - 1)
    /\ UNCHANGED <<session, callvars>>

\* an error raised by a call inside the innermost scope leaves it
scope_exit_on_error ==
    /\ pc = "done"
    /\ outcome.kind = "raise"
    /\ scope_stack # <<>>
    /\ restore(scope_stack[Len(scope_stack)])
    /\ scope_stack' = SubSeq(scope_stack, 1, Len(scope_stack) - 1)
    /\ UNCHANGED <<api_url, callvars>>

(* -------------------------- specifications ---------------------------- *)

\* no public call is in progress: a new one can start
Idle == pc = "idle"

\* the session operations: setters, the model registry and describe-or-load
Next ==
    \/ (Idle /\ \E url \in ApiUrls : InferenceHTTPClient(url))
    \/ (Idle /\ \E cfg \in Configurations : configure(cfg))
    \/ select_api_v0
    \/ select_api_v1
    \/ (Idle /\ \E m \in ModelIds : select_model(m))
    \/ (Idle /\ \E a \in BOOLEAN : list_loaded_models(a))
    \/ (Idle /\ \E a \in BOOLEAN, m \in ModelIds, d \in BOOLEAN : load_model(a, m, d))
    \/ (Idle /\ \E a \in BOOLEAN, m \in ModelIds : unload_model(a, m))
    \/ (Idle /\ \E a \in BOOLEAN : unload_all_models(a))
    \/ (Idle /\ \E a \in BOOLEAN, m \in ModelIds, l \in BOOLEAN : get_model_description(a, m, l))
    \/ \E f \in Failures : registry_fails(f)
    \/ registry_listed
    \/ \E t \in TaskTypes : registry_with_model(t)
    \/ registry_without_model
    \/ \E f \in Failures : add_fails(f)
    \/ add_succeeds_load
    \/ add_succeeds_describe
    \/ \E f \in Failures : remove_fails(f)
    \/ remove_succeeds
    \/ \E f \in Failures : clear_fails(f)
    \/ clear_succeeds
    \/ call_ends

Spec == Init /\ [][Next]_vars

\* the models and configurations the scoped overrides are exercised with
ScopeModelIds == {M1, M2}

ScopeConfigurations == {init_default,
                        [init_default EXCEPT !.max_batch_size = 2,
                                             !.max_concurent_requests = 2]}

\* scoped overrides, nested up to MaxScopeDepth, around the setters and the
\* registry mutations
NextScopes ==
    \/ (Idle /\ \E cfg \in ScopeConfigurations : configure(cfg))
    \/ select_api_v0
    \/ select_api_v1
    \/ (Idle /\ \E m \in ScopeModelIds : select_model(m))
    \/ (Idle /\ \E cfg \in ScopeConfigurations : use_configuration(cfg))
    \/ use_api_v0
    \/ use_api_v1
    \/ (Idle /\ \E m \in ScopeModelIds : use_model(m))
    \/ scope_exit
    \/ scope_exit_on_error
    \/ (Idle /\ \E m \in ScopeModelIds, d \in BOOLEAN : load_model(FALSE, m, d))
    \/ (Idle /\ \E m \in ScopeModelIds : unload_model(FALSE, m))
    \/ unload_all_models(FALSE)
    \/ \E f \in Failures : add_fails(f)
    \/ add_succeeds_load
    \/ \E f \in Failures : remove_fails(f)
    \/ remove_succeeds
    \/ \E f \in Failures : clear_fails(f)
    \/ clear_succeeds
    \/ call_ends

SpecScopes == Init /\ [][NextScopes]_vars

\* a client as constructed, after any select_model and configure
InitCalls ==
    /\ api_url \in {HostedUrl, LocalUrl}
    /\ client_mode = determine_client_mode(api_url)
    /\ selected_model \in {None, M1}
    /\ inference_configuration \in Configurations
    /\ scope_stack = <<>>
    /\ pc = "idle"
    /\ call = NoCall
    /\ pre = NoSnapshot
    /\ allow_loading = TRUE
    /\ model_description = NoDescription
    /\ requests_data = <<>>
    /\ status = <<>>
    /\ responses = <<>>
    /\ sent = <<>>
    /\ http = NoHttp
    /\ outcome = NoOutcome

\* the identifiers handed to an inference call
CallModelIds == {None, M2, MBad, MLong}

\* the public calls, each from start to end
NextCalls ==
    \/ (Idle /\ \E a \in BOOLEAN : list_loaded_models(a))
    \/ (Idle /\ \E a \in BOOLEAN, m \in ModelIds, d \in BOOLEAN : load_model(a, m, d))
    \/ (Idle /\ \E a \in BOOLEAN, m \in ModelIds : unload_model(a, m))
    \/ (Idle /\ \E a \in BOOLEAN : unload_all_models(a))
    \/ (Idle /\ \E a \in BOOLEAN, m \in ModelIds, l \in BOOLEAN : get_model_description(a, m, l))
    \/ (Idle /\ \E a \in BOOLEAN, m \in CallModelIds, i \in InferenceInputs : infer(a, m, i))
    \/ (Idle /\ \E a \in BOOLEAN, m \in CallModelIds, i \in InferenceInputs :
           infer_from_api_v0(a, m, i))
    \/ (Idle /\ \E a \in BOOLEAN, m \in CallModelIds, i \in InferenceInputs :
           infer_from_api_v1(a, m, i))
    \/ (Idle /\ \E a \in BOOLEAN, i \in InferenceInputs : ocr_image(a, i))
    \/ (Idle /\ \E a \in BOOLEAN, i \in InferenceInputs : detect_gazes(a, i))
    \/ (Idle /\ \E a \in BOOLEAN, i \in InferenceInputs : get_clip_image_embeddings(a, i))
    \/ (Idle /\ \E i \in InferenceInputs : prompt_cogvlm(i))
    \/ (Idle /\ \E a \in BOOLEAN, s \in ArgumentTypes, p \in ArgumentTypes :
           clip_compare(a, s, p))
    \/ (Idle /\ \E ws \in WorkspaceNames, wf \in WorkflowNames,
                    ws_spec \in WorkflowSpecifications :
           infer_from_workflow(ws, wf, ws_spec))
    \/ \E f \in Failures : registry_fails(f)
    \/ registry_listed
    \/ \E t \in TaskTypes : registry_with_model(t)
    \/ registry_without_model
    \/ \E f \in Failures : add_fails(f)
    \/ add_succeeds_load
    \/ add_succeeds_describe
    \/ \E f \in Failures : remove_fails(f)
    \/ remove_succeeds
    \/ \E f \in Failures : clear_fails(f)
    \/ clear_succeeds
    \/ \E f \in Failures : post_fails(f)
    \/ post_succeeds
    \/ \E j \in 1..Len(status) : dispatch(j)
    \/ \E j \in 1..Len(status) :
           \E r \in Answers(Pipeline(call, client_mode), requests_data[j]) :
               completes(j, r)
    \/ \E j \in 1..Len(status), f \in Failures : fails(j, f)
    \/ executor_raises
    \/ executor_returns
    \/ call_ends

SpecCalls == InitCalls /\ [][NextCalls]_vars

\* each request issued eventually gets its answer
Answer ==
    \/ \E f \in Failures : registry_fails(f)
    \/ registry_listed
    \/ \E t \in TaskTypes : registry_with_model(t)
    \/ registry_without_model
    \/ \E f \in Failures : add_fails(f)
    \/ add_succeeds_load
    \/ add_succeeds_describe
    \/ \E f \in Failures : remove_fails(f)
    \/ remove_succeeds
    \/ \E f \in Failures : clear_fails(f)
    \/ clear_succeeds

\* Spec, with every request completing
SpecLive == Init /\ [][Next]_vars /\ WF_vars(Answer)

(* ------------------------------ properties ---------------------------- *)

\* the operations documented as Current-only
CurrentOnly == {"list_loaded_models", "load_model", "unload_model",
                "unload_all_models", "get_model_description", "infer_from_api_v1",
                "detect_gazes", "prompt_cogvlm"}

\* C1: a Current-only operation (blocking or non-blocking) started while the
\* mode is Legacy ends at once in WrongClientModeError, and the call has
\* issued no HTTP request
C1_LegacyModeRaisesWithoutRequest ==
    (pc # "idle" /\ call.op \in CurrentOnly /\ pre.client_mode = V0)
        => /\ pc = "done"
           /\ outcome = Raised("WrongClientModeError")
           /\ HttpCount = 0
           /\ \A j \in 1..Len(sent) : sent[j] = 0

C1_Witness ==
    /\ pc = "done"
    /\ call.op = "detect_gazes"
    /\ call.is_async
    /\ pre.client_mode = V0
    /\ outcome.error = "WrongClientModeError"
    /\ HttpCount = 0

\* C2: one describe-or-load (get_model_description with allow_loading left
\* at its default, called directly or by an inference call) issues at most
\* one POST /model/add; when the backend accepts the load and still does not
\* list the model, exactly one load was issued and ModelNotInitializedError
\* is raised
C2_AtMostOneLoad ==
    (call.op \in Describing /\ call.allow_loading)
        => /\ http.add <= 1
           /\ (pc = "done" /\ http.answers = <<"absent", "ok", "absent">>)
                 => /\ http.add = 1
                    /\ outcome = Raised("ModelNotInitializedError")

C2_Witness ==
    /\ pc = "done"
    /\ call.op = "get_model_description"
    /\ call.is_async
    /\ http.answers = <<"absent", "ok", "absent">>
    /\ http.add = 1
    /\ outcome.error = "ModelNotInitializedError"

\* the ways a finished get_model_description can have gone
DescribeRuns ==
    LET a == http.answers
        counts(fetches, loads) == http.registry = fetches /\ http.add = loads
    IN  \/ a = <<"present">> /\ outcome.kind = "return" /\ counts(1, 0)
        \/ \E f \in Failures :
              a = <<f>> /\ outcome.kind = "raise" /\ counts(1, 0)
        \/ /\ a = <<"absent">> /\ ~call.allow_loading /\ counts(1, 0)
           /\ outcome = Raised("ModelNotInitializedError")
        \/ \E f \in Failures :
              /\ a = <<"absent", f>> /\ call.allow_loading /\ counts(1, 1)
              /\ outcome.kind = "raise"
        \/ /\ a = <<"absent", "ok", "present">> /\ call.allow_loading
           /\ outcome.kind = "return" /\ counts(2, 1)
        \/ /\ a = <<"absent", "ok", "absent">> /\ call.allow_loading /\ counts(2, 1)
           /\ outcome = Raised("ModelNotInitializedError")
        \/ \E f \in Failures :
              /\ a = <<"absent", "ok", f>> /\ call.allow_loading /\ counts(2, 1)
              /\ outcome.kind = "raise"

C3_Sequence ==
    call.op = "get_model_description"
        => /\ http.registry <= 2
           /\ http.add <= 1
           /\ ~call.allow_loading => (http.registry <= 1 /\ http.add = 0)
           /\ (pc = "done" /\ pre.client_mode = V1) => DescribeRuns

\* C3: get_model_description is: fetch; if present return (one fetch, no
\* load); else one load and exactly one more fetch, returning the
\* description if now present and raising ModelNotInitializedError if not;
\* with allow_loading=False one fetch and no load. Never more than two
\* fetches, and the call ends once each request is answered
C3_DescribeOrLoad ==
    /\ []C3_Sequence
    /\ (call.op = "get_model_description" /\ pc \in {"registry", "add"})
           ~> (pc = "done")

C3_Witness ==
    /\ pc = "done"
    /\ call.op = "get_model_description"
    /\ http.answers = <<"absent", "ok", "present">>
    /\ http.registry = 2
    /\ http.add = 1
    /\ outcome.kind = "return"

\* the session field a scope overrides, after the step
FieldValueNext(field) ==
    CASE field = "configuration" -> inference_configuration'
      [] field = "mode" -> client_mode'
      [] field = "model" -> selected_model'

\* C4: a step that enters a scope (use_configuration, use_api_v0,
\* use_api_v1, use_model) leaves the overridden field at the override value;
\* a step that leaves a scope, normally or by an error raised inside it,
\* leaves the field at the value it had just before the scope was entered
C4_ScopedOverrideRestores ==
    [][/\ Len(scope_stack') > Len(scope_stack)
            => LET scope == scope_stack'[Len(scope_stack')]
               IN  /\ FieldValueNext(scope.field) = scope.override
                   /\ scope.before = FieldValue(scope.field)
       /\ Len(scope_stack') < Len(scope_stack)
            => LET scope == scope_stack[Len(scope_stack)]
               IN  FieldValueNext(scope.field) = scope.before]_vars

\* an error raised inside use_model has left the scope: the selection is no
\* longer the one the failed call saw
C4_Witness ==
    /\ pc = "done"
    /\ outcome.kind = "raise"
    /\ scope_stack = <<>>
    /\ pre.client_mode = client_mode
    /\ pre.selected_model # selected_model

\* C5: a successful unload_model(m) clears the selection when m is the
\* selected model and leaves it alone otherwise; a successful
\* unload_all_models clears it whatever it was; blocking or non-blocking
C5_UnloadClearsSelection ==
    (pc = "done" /\ outcome.kind = "return")
        => /\ call.op = "unload_model"
                => selected_model = IF pre.selected_model = call.model_id
                                    THEN None ELSE pre.selected_model
           /\ call.op = "unload_all_models" => selected_model = None

C5_Witness ==
    /\ pc = "done"
    /\ outcome.kind = "return"
    /\ call.op = "unload_model"
    /\ call.is_async
    /\ pre.selected_model = call.model_id
    /\ pre.selected_model # None
    /\ selected_model = None

\* the number of images handed to the call
NumImages == Len(call.sfs)

\* the code path of the call in progress
CallPipeline == Pipeline(call, client_mode)

InferenceOps == {"infer", "infer_from_api_v0", "infer_from_api_v1"}

\* every answer received kept the backend's contract
AllConform ==
    \A j \in 1..Len(requests_data) :
        status[j] = "ok" => Conforms(requests_data[j], responses[j])

\* the call returned a result
CallReturned == pc = "done" /\ outcome.kind = "return"

\* C6: whatever the order in which the dispatched requests complete, the
\* i-th prediction of an inference call is the prediction for the i-th input
\* image (the backend answering each package with one prediction per image),
\* for the blocking and the non-blocking entry points alike
C6_ResultsInInputOrder ==
    (CallReturned /\ call.op \in InferenceOps /\ AllConform)
        => /\ Len(outcome.results) = NumImages
           /\ \A i \in 1..NumImages : outcome.results[i].images = <<i>>

C6_Witness ==
    /\ CallReturned
    /\ call.op = "infer"
    /\ call.is_async
    /\ CallPipeline = "v1"
    /\ AllConform
    /\ http.out_of_order
    /\ NumImages = 3
    /\ \A i \in 1..3 : outcome.results[i].images = <<i>>

\* the images of the packages, in package order
RECURSIVE PackagedImages(_)
PackagedImages(packages) ==
    IF Len(packages) = 0 THEN <<>>
    ELSE Head(packages).images \o PackagedImages(Tail(packages))

\* every package carries the scaling factors of its own images, by position
FactorsAligned ==
    \A j \in 1..Len(requests_data) :
        LET package == requests_data[j]
        IN  /\ Len(package.image_scaling_factors) = Len(package.images)
            /\ \A k \in 1..Len(package.images) :
                   package.image_scaling_factors[k] = call.sfs[package.images[k]]

\* C7: with JSON placement (infer_from_api_v1, _post_images) N images and
\* batch ceiling B give ceil(N / B) packages, each of at most B images, only
\* the last possibly smaller, covering the input in order without repeats or
\* gaps; a call that returns has sent each of them once
C7_BatchesOfCeiling ==
    (requests_data # <<>> /\ CallPipeline \in {"v1", "post_images"})
        => LET B == inference_configuration.max_batch_size
               L == Len(requests_data)
           IN  /\ L = (NumImages + B - 1) \div B
               /\ \A j \in 1..L :
                      /\ Len(requests_data[j].images) <= B
                      /\ j < L => Len(requests_data[j].images) = B
               /\ PackagedImages(requests_data) = [i \in 1..NumImages |-> i]
               /\ FactorsAligned
               /\ CallReturned => (http.post = L /\ \A j \in 1..L : sent[j] = 1)

C7_Witness ==
    /\ CallReturned
    /\ CallPipeline = "v1"
    /\ NumImages = 3
    /\ inference_configuration.max_batch_size = 2
    /\ Len(requests_data) = 2
    /\ requests_data[1].images = <<1, 2>>
    /\ requests_data[2].images = <<3>>
    /\ http.post = 2

\* C8: in the legacy path N images give N requests, the j-th carrying the
\* j-th image alone with that image's scaling factor, whatever N and the
\* configured batch ceiling are
C8_LegacyOneImagePerRequest ==
    (requests_data # <<>> /\ CallPipeline = "v0")
        => /\ Len(requests_data) = NumImages
           /\ \A j \in 1..Len(requests_data) :
                  /\ requests_data[j].images = <<j>>
                  /\ requests_data[j].image_scaling_factors = <<call.sfs[j]>>
           /\ CallReturned => http.post = NumImages

C8_Witness ==
    /\ CallReturned
    /\ CallPipeline = "v0"
    /\ NumImages = 3
    /\ inference_configuration.max_batch_size = 2
    /\ Len(requests_data) = 3
    /\ requests_data[3].image_scaling_factors = <<factor_of(3)>>

\* the calls whose result is one prediction per image
PerImageOps == InferenceOps \cup {"ocr_image"}

RequestErrors ==
    {TransportError(a, f) : a \in BOOLEAN, f \in Failures}
        \cup {"HTTPCallErrorError", "HTTPClientError"}

\* C10: when a package of a call failed, the call raises the failure and
\* hands back no result; a result is handed back only when every package was
\* sent and answered successfully
C10_FailureRaisesNoPartialResult ==
    (pc = "done" /\ requests_data # <<>>)
        => /\ Failed # {} => /\ outcome.kind = "raise"
                             /\ outcome.error \in RequestErrors
                             /\ outcome.results = <<>>
           /\ outcome.kind = "return"
                 => \A j \in 1..Len(requests_data) : status[j] = "ok" /\ sent[j] = 1

C10_Witness ==
    /\ pc = "done"
    /\ call.op = "infer"
    /\ CallPipeline = "v1"
    /\ Len(requests_data) = 3
    /\ status[1] = "ok"
    /\ status[2] = "failed"
    /\ outcome.kind = "raise"
    /\ outcome.results = <<>>

\* C11: within one public call every request package is sent at most once
\* and a failed one is never sent again; load, unload and clear requests and
\* single posts are sent at most once; the only repeated request is the
\* second registry fetch of describe-or-load, after its one load; and once a
\* registry or single request has failed the call is over
C11_NoRequestRetried ==
    /\ \A j \in 1..Len(sent) :
           /\ sent[j] <= 1
           /\ status[j] = "pending" => sent[j] = 0
           /\ status[j] # "pending" => sent[j] = 1
    /\ http.post <= (IF requests_data = <<>> THEN 1 ELSE Len(requests_data))
    /\ http.add <= 1
    /\ http.remove <= 1
    /\ http.clear <= 1
    /\ http.registry <= 2
    /\ http.registry = 2 => (call.op \in Describing /\ http.add = 1)
    /\ http.failure # "none" => pc = "done"

C11_Witness ==
    /\ pc = "done"
    /\ outcome.kind = "raise"
    /\ Len(requests_data) = 3
    /\ status[1] = "failed"
    /\ sent = <<1, 0, 0>>
    /\ http.registry = 2
    /\ http.post = 1

\* C12: while the packages of a call are dispatched, the number of requests
\* in flight never exceeds the configured max_concurent_requests, for the
\* blocking and the non-blocking entry points alike
C12_ConcurrencyCeiling ==
    Cardinality(InFlight) <= inference_configuration.max_concurent_requests

C12_Witness ==
    /\ pc = "exec"
    /\ call.is_async
    /\ inference_configuration.max_concurent_requests = 2
    /\ Cardinality(InFlight) = 2
    /\ Pending # {}

\* the request that ended the call got an HTTP error status
EndedByStatusError == pc = "done" /\ http.failure = "status_error"

\* C13: a call ended by an HTTP error status raises HTTPCallErrorError
\* carrying the status code of the response, with the message field of the
\* body as API message when the response is JSON and the raw text otherwise
C13_StatusErrorBecomesCallError ==
    EndedByStatusError
        => /\ outcome.kind = "raise"
           /\ outcome.error = "HTTPCallErrorError"
           /\ outcome.status_code = http.error_response.status_code
           /\ outcome.api_message =
                  (IF http.error_response.content_type = "application/json"
                   THEN response_json_message(http.error_response)
                   ELSE response_text(http.error_response))

\* C14: a call ended by a connection failure of the transport raises
\* HTTPClientError, not the transport library's own exception
C14_ConnectionFailureBecomesClientError ==
    (pc = "done" /\ http.failure = "connection_failure")
        => /\ outcome.kind = "raise"
           /\ outcome.error = "HTTPClientError"

\* the error kinds of inference_sdk.http.errors
ErrorTaxonomy ==
    {"HTTPCallErrorError", "HTTPClientError", "InvalidModelIdentifier",
     "InvalidParameterError", "ModelNotInitializedError", "ModelNotSelectedError",
     "ModelTaskTypeNotSupportedError", "WrongClientModeError"}

\* C15: whatever public operation performed the request (blocking or
\* non-blocking, decorated or called directly), an error it raises is of the
\* taxonomy, HTTPCallErrorError for an HTTP error status (connection
\* failures are the matter of C14 and left aside here)
C15_OnlyTaxonomyErrorsRaised ==
    (pc = "done" /\ outcome.kind = "raise" /\ http.failure # "connection_failure")
        => /\ outcome.error \in ErrorTaxonomy
           /\ http.failure = "status_error" => outcome.error = "HTTPCallErrorError"

\* the identifier the caller means: the per-call one, else the selection
\* as it was when the call started
MeantModelId == IF call.model_id # None THEN call.model_id ELSE pre.selected_model

\* number of '/' characters of an identifier
Slashes(model_id) == Cardinality({i \in 1..Len(model_id) : model_id[i] = "/"})

\* the call takes the legacy inference path
LegacyCall ==
    \/ call.op = "infer_from_api_v0"
    \/ call.op = "infer" /\ pre.client_mode = V0

\* C16: a Legacy inference call (blocking or non-blocking) whose identifier
\* does not split on '/' into exactly two parts ends at once in
\* InvalidModelIdentifier, no package built and no request issued
C16_UnparseableIdentifierRaisesLocally ==
    (pc # "idle" /\ LegacyCall /\ MeantModelId # None /\ Slashes(MeantModelId) # 1)
        => /\ pc = "done"
           /\ outcome.kind = "raise"
           /\ outcome.error = "InvalidModelIdentifier"
           /\ requests_data = <<>>
           /\ HttpCount = 0

C16_Witness ==
    /\ pc = "done"
    /\ call.op = "infer_from_api_v0"
    /\ call.is_async
    /\ call.model_id = MLong
    /\ outcome.error = "InvalidModelIdentifier"
    /\ HttpCount = 0

\* the call ended in the error `error`
EndedIn(error) == pc = "done" /\ outcome.kind = "raise" /\ outcome.error = error

\* C17 as claimed: a call that ends in ModelNotSelectedError,
\* ModelTaskTypeNotSupportedError or InvalidParameterError has issued no HTTP
\* request
C17_ValidationNeverReachesNetwork ==
    (\/ EndedIn("ModelNotSelectedError")
     \/ EndedIn("ModelTaskTypeNotSupportedError")
     \/ EndedIn("InvalidParameterError"))
        => HttpCount = 0

\* C17, amended: a call that ends in ModelNotSelectedError or
\* InvalidParameterError has issued no HTTP request; one that ends in
\* ModelTaskTypeNotSupportedError has fetched the model description from the
\* registry (the task type is the backend's answer) and has built and sent
\* no inference request
C17_ValidationBeforeInferenceRequest ==
    /\ (EndedIn("ModelNotSelectedError") \/ EndedIn("InvalidParameterError"))
           => HttpCount = 0
    /\ EndedIn("ModelTaskTypeNotSupportedError")
           => /\ http.registry >= 1
              /\ model_description.task_type \notin NEW_INFERENCE_ENDPOINTS
              /\ requests_data = <<>>
              /\ http.post = 0

C17_Witness ==
    /\ EndedIn("ModelTaskTypeNotSupportedError")
    /\ call.op = "infer"
    /\ http.registry = 1
    /\ http.post = 0
    /\ HttpCount = 1

\* the model a request package addresses: the two parts of the legacy path
\* joined by '/', or the model_id of the payload
TargetOf(package) ==
    IF package.payload.model_id # None THEN package.payload.model_id
    ELSE package.url.path[1] \o <<"/">> \o package.url.path[2]

\* C18: during an inference call every request package, the load request
\* and the description resolved address the per-call identifier when one is
\* given and the selected model otherwise, and selected_model keeps the value
\* it had when the call started
C18_PerCallIdentifierOverrides ==
    (pc # "idle" /\ call.op \in InferenceOps)
        => /\ \A j \in 1..Len(requests_data) : TargetOf(requests_data[j]) = MeantModelId
           /\ http.loaded \in {None, MeantModelId}
           /\ model_description.model_id \in {None, MeantModelId}
           /\ selected_model = pre.selected_model

C18_Witness ==
    /\ CallReturned
    /\ call.op = "infer"
    /\ call.model_id = M2
    /\ pre.selected_model = M1
    /\ selected_model = M1
    /\ http.loaded = M2
    /\ model_description.model_id = M2
    /\ requests_data[1].payload.model_id = M2

\* the part of a base address that is no host label
NonHostTokens == {":9001"}

\* the host labels of a base address: what follows the scheme, less the port
HostLabels(url) == SelectSeq(Tail(url), LAMBDA t : t \notin NonHostTokens)

\* the host of the address is roboflow.com or a subdomain of it
BelongsToHostedDomain(url) ==
    /\ HostLabels(url) # <<>>
    /\ HostLabels(url)[Len(HostLabels(url))] = "roboflow.com"

\* C19: every step that constructs a client leaves it in mode Legacy if and
\* only if its base address belongs to the hosted domain roboflow.com, and
\* Current otherwise, with no selected model and the default configuration
C19_FreshClientModeFollowsDomain ==
    [][(\E url \in ApiUrls : InferenceHTTPClient(url))
          => /\ client_mode' = V0 <=> BelongsToHostedDomain(api_url')
             /\ client_mode' = V1 <=> ~BelongsToHostedDomain(api_url')
             /\ selected_model' = None
             /\ inference_configuration' = init_default]_vars

\* the Current inference endpoints, as URL paths
CurrentInferPaths == {<<new_inference_endpoint(t)>> : t \in NEW_INFERENCE_ENDPOINTS}

\* the package goes to a Current /infer/<task> endpoint
ToCurrentEndpoint(package) == package.url.path \in CurrentInferPaths

\* the package goes to the legacy {project}/{version} path
ToLegacyPath(package) ==
    /\ Len(package.url.path) = 2
    /\ package.payload.model_id = None

\* the packages of the call that were sent
SentPackages == {j \in 1..Len(requests_data) : sent[j] > 0}

\* C20 as claimed: exactly one mode is active, and for infer,
\* infer_from_api_v0 and infer_from_api_v1 a request goes to the legacy path
\* only while Legacy is active and to a Current inference endpoint or the
\* registry only while Current is active
C20_ModeGatesEndpoints ==
    /\ client_mode \in {V0, V1}
    /\ (pc # "idle" /\ call.op \in InferenceOps)
           => /\ \A j \in SentPackages :
                     /\ ToLegacyPath(requests_data[j]) \/ ToCurrentEndpoint(requests_data[j])
                     /\ ToLegacyPath(requests_data[j]) => client_mode = V0
                     /\ ToCurrentEndpoint(requests_data[j]) => client_mode = V1
              /\ http.registry + http.add > 0 => client_mode = V1

\* C20, amended: exactly one mode is active; infer sends to the legacy path
\* exactly while Legacy is active and to a Current inference endpoint or the
\* registry exactly while Current is active; infer_from_api_v1 sends only
\* while Current is active; infer_from_api_v0 called directly sends to the
\* legacy path whichever mode is active
C20_ModeGatesInfer ==
    /\ client_mode \in {V0, V1}
    /\ (pc # "idle" /\ call.op \in InferenceOps)
           => /\ \A j \in SentPackages :
                     /\ ToLegacyPath(requests_data[j]) \/ ToCurrentEndpoint(requests_data[j])
                     /\ call.op = "infer"
                           => /\ ToLegacyPath(requests_data[j]) <=> client_mode = V0
                              /\ ToCurrentEndpoint(requests_data[j]) <=> client_mode = V1
                     /\ call.op = "infer_from_api_v1"
                           => ToCurrentEndpoint(requests_data[j]) /\ client_mode = V1
                     /\ call.op = "infer_from_api_v0" => ToLegacyPath(requests_data[j])
              /\ http.registry + http.add > 0 => client_mode = V1

C20_Witness ==
    /\ CallReturned
    /\ call.op = "infer_from_api_v0"
    /\ client_mode = V1
    /\ SentPackages = {1, 2}
    /\ ToLegacyPath(requests_data[1])
    /\ ToLegacyPath(requests_data[2])

\* C21: every prediction an inference call returns was corrected with the
\* scaling factor of the image it is the prediction of (the k-th element of
\* the response to package j with the k-th factor of package j, a legacy
\* response with the factor of its package's single image), so that with one
\* prediction per image the i-th result carries the factor of the i-th image
C21_OwnScalingFactorPerImage ==
    (CallReturned /\ call.op \in InferenceOps)
        => /\ \A i \in 1..Len(outcome.results) :
                  /\ Len(outcome.results[i].images) = 1
                  /\ outcome.results[i].scaling_factor
                         = call.sfs[outcome.results[i].images[1]]
           /\ AllConform
                 => \A i \in 1..NumImages : outcome.results[i].scaling_factor = call.sfs[i]

C21_Witness ==
    /\ CallReturned
    /\ call.op = "infer"
    /\ CallPipeline = "v1"
    /\ inference_configuration.max_batch_size = 2
    /\ NumImages = 3
    /\ Len(outcome.results) = 3
    /\ outcome.results[2].scaling_factor = factor_of(2)
    /\ outcome.results[3].scaling_factor = factor_of(3)

(* ----------------------- two calls in a row --------------------------- *)

\* one image per call
SingleImageInputs == {i \in InferenceInputs : Len(i.sfs) = 1}

\* describing calls one after the other, the caller's history followed
NextReadThrough ==
    \/ (Idle /\ \E a \in BOOLEAN, m \in {M1, M2}, l \in BOOLEAN :
           get_model_description(a, m, l))
    \/ (Idle /\ \E a \in BOOLEAN, m \in {None, M2}, i \in SingleImageInputs :
           infer(a, m, i))
    \/ (Idle /\ \E a \in BOOLEAN, m \in {None, M2}, i \in SingleImageInputs :
           infer_from_api_v1(a, m, i))
    \/ \E f \in Failures : registry_fails(f)
    \/ \E t \in TaskTypes : registry_with_model(t)
    \/ registry_without_model
    \/ \E f \in Failures : add_fails(f)
    \/ add_succeeds_describe
    \/ \E j \in 1..Len(status) : dispatch(j)
    \/ \E j \in 1..Len(status) :
           \E r \in Answers(Pipeline(call, client_mode), requests_data[j]) :
               completes(j, r)
    \/ \E j \in 1..Len(status), f \in Failures : fails(j, f)
    \/ executor_raises
    \/ executor_returns
    \/ call_ends_remembering

SpecReadThrough == InitCalls /\ [][NextReadThrough]_vars

\* the call in progress resolves a description in Current mode and got past
\* its local checks
DescribingInCurrentMode ==
    /\ pc # "idle"
    /\ call.op \in Describing
    /\ pre.client_mode = V1
    /\ outcome.error # "ModelNotSelectedError"

\* C22: the registry is read through and never cached: between calls the
\* client holds no description; every get_model_description and every
\* Current-mode inference call fetches the registry itself, also when the
\* call before it resolved the same model, so two calls in a row issue two
\* fetches; and a call whose fetch no longer finds the model loads it and
\* fetches again before it returns
C22_RegistryReadThrough ==
    /\ pc = "idle" => model_description = NoDescription
    /\ DescribingInCurrentMode
           => /\ http.registry >= 1
              /\ model_description # NoDescription
                     => /\ http.answers[Len(http.answers)] = "present"
                        /\ model_description.model_id
                               = model_id_to_be_used(call, pre.selected_model)
              /\ (CallReturned /\ http.answers[1] = "absent")
                     => /\ http.registry = 2
                        /\ http.add = 1
                        /\ http.loaded = model_description.model_id

C22_Witness ==
    /\ CallReturned
    /\ call.op = "infer"
    /\ http.previous.model_id = M2
    /\ model_description.model_id = M2
    /\ http.answers = <<"absent", "ok", "present">>
    /\ http.registry = 2
    /\ http.add = 1

(* ---------------------- interleaved call sites ------------------------- *)

\* call sites sharing one client enter scopes and leave them in any order
NextInterleaved ==
    \/ (Idle /\ \E cfg \in ScopeConfigurations : use_configuration(cfg))
    \/ use_api_v0
    \/ use_api_v1
    \/ (Idle /\ \E m \in ScopeModelIds : use_model(m))
    \/ \E k \in 1..Len(scope_stack) : scope_exit_interleaved(k)

SpecInterleaved == InitCalls /\ [][NextInterleaved]_vars

\* the scopes entered so far that override `field`
ScopesOf(field) == {k \in 1..Len(scope_stack) : scope_stack[k].field = field}

\* scope b was entered while a was open and left after a was left
Interleaved(a, b) ==
    /\ scope_stack[a].entered < scope_stack[b].entered
    /\ scope_stack[b].entered < scope_stack[a].exited
    /\ scope_stack[a].exited < scope_stack[b].exited

\* C23: with the scopes of a field all left, the field holds the value saved
\* by the scope that was left last; so when two scopes of one field
\* interleave (the second entered inside the first, the first left first)
\* the field ends at the first scope's override, which is not the value it
\* had before either scope whenever the first scope changed it
C23_InterleavedScopesLoseRestore ==
    \A field \in {"configuration", "mode", "model"} :
        (ScopesOf(field) # {} /\ \A k \in ScopesOf(field) : scope_stack[k].exited # 0)
            => /\ \E last \in ScopesOf(field) :
                      /\ \A k \in ScopesOf(field) :
                             scope_stack[k].exited <= scope_stack[last].exited
                      /\ FieldValue(field) = scope_stack[last].previous
               /\ \A a, b \in ScopesOf(field) :
                      (Interleaved(a, b) /\ ScopesOf(field) = {a, b})
                          => /\ FieldValue(field) = scope_stack[a].override
                             /\ scope_stack[a].override # scope_stack[a].before
                                    => FieldValue(field) # scope_stack[a].before

C23_Witness ==
    /\ Len(scope_stack) = 2
    /\ scope_stack[1].field = "model"
    /\ scope_stack[2].field = "model"
    /\ Interleaved(1, 2)
    /\ selected_model # scope_stack[1].before
    /\ selected_model = scope_stack[1].override

\* C24: infer_from_workflow takes either both names or a specification: with
\* neither, or with both names and a specification, it raises
\* InvalidParameterError without any request; otherwise it issues exactly one
\* request, to /infer/workflows with the specification in the payload when a
\* specification is given, else to /infer/workflows/{workspace}/{workflow};
\* the named path never holds a missing name
C24_WorkflowNamedOrSpecified ==
    (call.op = "infer_from_workflow" /\ pc # "idle")
        => LET named == call.workspace_name # None /\ call.workflow_name # None
               given == call.workflow_specification # None
           IN  /\ (named = given)
                      => /\ pc = "done"
                         /\ outcome = Raised("InvalidParameterError")
                         /\ HttpCount = 0
               /\ (named # given)
                      => /\ http.post = 1
                         /\ HttpCount = 1
                         /\ outcome.error # "InvalidParameterError"
                         /\ http.posted.url.api_url = api_url
                         /\ http.posted.specification = call.workflow_specification
                         /\ given => http.posted.url.path = <<<<"/infer/workflows">>>>
                         /\ ~given => http.posted.url.path
                                          = <<<<"/infer/workflows">>, call.workspace_name,
                                              call.workflow_name>>
               /\ \A k \in 2..Len(http.posted.url.path) : http.posted.url.path[k] # None

C24_Witness ==
    /\ CallReturned
    /\ call.op = "infer_from_workflow"
    /\ call.workflow_specification = None
    /\ http.post = 1
    /\ http.posted.url.path = <<<<"/infer/workflows">>, <<"workspace">>, <<"workflow">>>>

\* C25: clip_compare and clip_compare_async take only "image" and "text" as
\* subject_type and prompt_type: with any other value for either the call
\* ends in InvalidParameterError with no image loaded and no request sent;
\* with both accepted it loads the image inputs and sends one request
C25_ClipArgumentTypesValidatedFirst ==
    (call.op = "clip_compare" /\ pc # "idle")
        => IF call.subject_type \in CLIP_ARGUMENT_TYPES
              /\ call.prompt_type \in CLIP_ARGUMENT_TYPES
           THEN /\ http.post = 1
                /\ outcome.error # "InvalidParameterError"
           ELSE /\ pc = "done"
                /\ outcome = Raised("InvalidParameterError")
                /\ http.posted.loaded_inputs = {}
                /\ HttpCount = 0

C25_Witness ==
    /\ EndedIn("InvalidParameterError")
    /\ call.op = "clip_compare"
    /\ call.is_async
    /\ call.subject_type = "image"
    /\ call.prompt_type = "audio"
    /\ http = NoHttp

\* C26: a returned prediction for an image resized with the recorded factor
\* f = D'/D has every spatial coordinate x' of the backend's prediction as
\* x' / f, and as x' itself when f = 1
C26_ScalingRoundTrip ==
    (CallReturned /\ call.op \in InferenceOps)
        => \A i \in 1..Len(outcome.results) :
               LET result == outcome.results[i]
                   f == call.sfs[result.images[1]]
               IN  \A k \in 1..Len(PredictedCoordinates) :
                       /\ result.coordinates[k][1] * f[1]
                              = PredictedCoordinates[k] * f[2] * result.coordinates[k][2]
                       /\ result.coordinates[k][2] > 0
                       /\ f[1] = f[2]
                              => result.coordinates[k] = <<PredictedCoordinates[k], 1>>

C26_Witness ==
    /\ CallReturned
    /\ call.op = "infer_from_api_v0"
    /\ call.sfs = <<TwoThirds>>
    /\ outcome.results[1].coordinates = <<<<18, 1>>, <<21, 2>>>>

\* the kind of an error, the transport libraries' own exceptions taken by
\* what they report and not by the library they come from
ErrorKind(error) ==
    CASE error \in {"requests.HTTPError", "aiohttp.ClientResponseError"}
             -> "transport status error"
      [] error \in {"requests.ConnectionError", "aiohttp.ClientConnectionError"}
             -> "transport connection error"
      [] OTHER -> error

\* the request that ended the call in progress was sent by list_loaded_models,
\* load_model, unload_model or unload_all_models
EndedInRegistryCall == http.post = 0 /\ requests_data = <<>>

\* what the blocking entry point of the operation in progress raises when
\* the same request fails in the same way
BlockingOutcome ==
    LET blocking == [call EXCEPT !.is_async = FALSE]
        raised == TransportError(FALSE, http.failure)
    IN  call_error_from(IF EndedInRegistryCall
                        THEN RaiseFromRegistryCall(blocking, raised)
                        ELSE RaiseFromBody(blocking, raised),
                        http.error_response)

\* C27: a non-blocking call ended by a failed request raises the kind of
\* error, with the status code and API message, that the blocking entry
\* point of the same operation raises for the same failure
C27_BlockingAndNonBlockingAgree ==
    (pc = "done" /\ call.is_async /\ http.failure # "none")
        => /\ outcome.kind = "raise"
           /\ ErrorKind(outcome.error) = ErrorKind(BlockingOutcome.error)
           /\ outcome.status_code = BlockingOutcome.status_code
           /\ outcome.api_message = BlockingOutcome.api_message

\* C28: a Current-mode inference call on a list of N >= 2 images that
\* returns, returns a list of exactly N predictions, whatever the shape of
\* the backend's response to each package (an object, or a list of any
\* length)
C28_ListOfNReturnsN ==
    (/\ CallReturned
     /\ call.op \in InferenceOps
     /\ CallPipeline = "v1"
     /\ call.is_list
     /\ NumImages >= 2)
        => /\ Len(outcome.results) = NumImages
           /\ ~outcome.bare

\* the value `field` has once every open scope of the stack is left: the
\* value held when the outermost scope overriding it was entered, or the
\* current one when no open scope overrides it
Unwound(stack, field, current) ==
    LET open == {k \in 1..Len(stack) : stack[k].field = field}
    IN  IF open = {} THEN current
        ELSE stack[CHOOSE k \in open : \A l \in open : k <= l].before

\* C29: a step that leaves a scope, normally or by an error, puts the
\* overridden field back to the value held when the scope was entered,
\* whatever select_model, load_model, unload_model, unload_all_models,
\* select_api_v0/v1 or configure made of it inside the scope; it leaves the
\* other fields alone, and it leaves unchanged the values the enclosing
\* scopes unwind to, so nested scopes end at the original values
C29_ExitUndoesChangesInsideScope ==
    [][Len(scope_stack') < Len(scope_stack)
           => LET scope == scope_stack[Len(scope_stack)]
              IN  /\ FieldValueNext(scope.field) = scope.before
                  /\ \A field \in {"configuration", "mode", "model"} :
                         /\ field # scope.field
                                => FieldValueNext(field) = FieldValue(field)
                         /\ Unwound(scope_stack', field, FieldValueNext(field))
                                = Unwound(scope_stack, field, FieldValue(field))]_vars

\* a scope of the selected model was left after the selection had been
\* cleared inside it: the model is selected again
C29_Witness ==
    /\ pc = "done"
    /\ outcome.kind = "raise"
    /\ scope_stack = <<>>
    /\ pre.selected_model = None
    /\ selected_model = M1

\* the registry mutations
RegistryMutations == {"load_model", "unload_model", "unload_all_models"}

\* C30: a load_model, unload_model or unload_all_models call that raises
\* (wrong client mode, error status or transport failure of its request)
\* leaves the selected model, the mode and the configuration as they were
\* when it started; while its request is unanswered they are untouched too,
\* the selection changing only with the backend's successful answer
C30_FailedMutationLeavesSession ==
    (call.op \in RegistryMutations /\ pc # "idle")
        => /\ (pc = "done" /\ outcome.kind = "raise") => Snapshot = pre
           /\ pc # "done" => Snapshot = pre
           /\ Snapshot # pre => (CallReturned /\ http.answers = <<"ok">>)

C30_Witness ==
    /\ pc = "done"
    /\ outcome.kind = "raise"
    /\ call.op = "unload_model"
    /\ http.failure = "status_error"
    /\ call.model_id = selected_model
    /\ selected_model = M1
    /\ Snapshot = pre

(* ------------------- the session across all operations ---------------- *)

\* the setters and the configuration and mode scopes (one at a time) around
\* the inference and query operations, one image per call
NextSession ==
    \/ (Idle /\ \E cfg \in ScopeConfigurations : configure(cfg))
    \/ select_api_v0
    \/ select_api_v1
    \/ (Idle /\ scope_stack = <<>> /\ \E cfg \in ScopeConfigurations :
           use_configuration(cfg))
    \/ (scope_stack = <<>> /\ use_api_v0)
    \/ (scope_stack = <<>> /\ use_api_v1)
    \/ scope_exit
    \/ (Idle /\ \E a \in BOOLEAN : list_loaded_models(a))
    \/ (Idle /\ \E a \in BOOLEAN, d \in BOOLEAN : load_model(a, M1, d))
    \/ (Idle /\ \E a \in BOOLEAN, l \in BOOLEAN : get_model_description(a, M1, l))
    \/ (Idle /\ \E a \in BOOLEAN, m \in {None, M2}, i \in SingleImageInputs : infer(a, m, i))
    \/ (Idle /\ \E a \in BOOLEAN, i \in SingleImageInputs : infer_from_api_v0(a, M2, i))
    \/ (Idle /\ \E a \in BOOLEAN, i \in SingleImageInputs : infer_from_api_v1(a, M2, i))
    \/ (Idle /\ \E a \in BOOLEAN, i \in SingleImageInputs : ocr_image(a, i))
    \/ (Idle /\ \E a \in BOOLEAN, i \in SingleImageInputs : detect_gazes(a, i))
    \/ (Idle /\ \E a \in BOOLEAN, i \in SingleImageInputs : get_clip_image_embeddings(a, i))
    \/ (Idle /\ \E a \in BOOLEAN, s \in ArgumentTypes, p \in ArgumentTypes :
           clip_compare(a, s, p))
    \/ (Idle /\ \E ws \in WorkspaceNames, wf \in WorkflowNames,
                    ws_spec \in WorkflowSpecifications :
           infer_from_workflow(ws, wf, ws_spec))
    \/ \E f \in Failures : registry_fails(f)
    \/ registry_listed
    \/ \E t \in TaskTypes : registry_with_model(t)
    \/ registry_without_model
    \/ \E f \in Failures : add_fails(f)
    \/ add_succeeds_load
    \/ add_succeeds_describe
    \/ \E f \in Failures : post_fails(f)
    \/ post_succeeds
    \/ \E j \in 1..Len(status) : dispatch(j)
    \/ \E j \in 1..Len(status) :
           \E r \in Answers(Pipeline(call, client_mode), requests_data[j]) :
               completes(j, r)
    \/ \E j \in 1..Len(status), f \in Failures : fails(j, f)
    \/ executor_raises
    \/ executor_returns
    \/ call_ends

SpecSession == Init /\ [][NextSession]_vars

\* the call c is one of the inference and query operations: every operation
\* but unload_model, unload_all_models and load_model(set_as_default=True)
SessionPreserving(c) ==
    /\ c.op \notin {"none", "unload_model", "unload_all_models"}
    /\ c.op = "load_model" => ~c.set_as_default

\* the step leaves a scope that overrides `field`
LeavesScopeOf(field) ==
    /\ Len(scope_stack') < Len(scope_stack)
    /\ scope_stack[Len(scope_stack)].field = field

\* C31: no step of an inference or query call (infer, infer_from_api_v0/v1,
\* get_model_description with the load it performs, list_loaded_models,
\* load_model without set_as_default, ocr_image, detect_gazes, the clip
\* calls, infer_from_workflow; blocking or not, succeeding or failing)
\* changes the mode, the configuration or the selected model; the
\* configuration changes only in configure and use_configuration (entry and
\* exit), to the whole value handed in or saved, and the mode only in
\* select_api_v0/v1 and use_api_v0/v1 (entry and exit)
C31_QueriesLeaveSession ==
    [][/\ (pc' # "idle" /\ SessionPreserving(call'))
              => /\ Snapshot' = Snapshot
                 /\ pre' = Snapshot
       /\ inference_configuration' # inference_configuration
              => \/ \E cfg \in ScopeConfigurations :
                        /\ configure(cfg) \/ use_configuration(cfg)
                        /\ inference_configuration' = cfg
                 \/ /\ LeavesScopeOf("configuration")
                    /\ inference_configuration' = scope_stack[Len(scope_stack)].previous
       /\ client_mode' # client_mode
              => \/ select_api_v0 \/ select_api_v1 \/ use_api_v0 \/ use_api_v1
                 \/ LeavesScopeOf("mode")]_vars

\* get_model_description loaded a model that is not the selected one, inside
\* a configuration scope, and returned: the session is as it was
C31_Witness ==
    /\ CallReturned
    /\ call.op = "get_model_description"
    /\ http.add = 1
    /\ http.loaded = M1
    /\ selected_model # M1
    /\ Snapshot = pre
    /\ scope_stack # <<>>
    /\ inference_configuration # init_default

\* the call takes the Current inference path
CurrentCall ==
    \/ call.op = "infer_from_api_v1"
    \/ call.op = "infer" /\ pre.client_mode = V1

\* C32: the local checks of an inference call run in a fixed order and the
\* first that fails decides the one error raised: on the Current path the
\* mode, then the selection (WrongClientModeError even when no model is
\* meant); on the Legacy path the selection, then the shape of the
\* identifier, so that with no identifier at all ModelNotSelectedError is
\* raised and never InvalidModelIdentifier
C32_LocalChecksInOrder ==
    (pc # "idle" /\ call.op \in InferenceOps)
        => /\ (CurrentCall /\ pre.client_mode # V1)
                  => /\ pc = "done"
                     /\ outcome = Raised("WrongClientModeError")
           /\ (CurrentCall /\ pre.client_mode = V1 /\ MeantModelId = None)
                  => /\ pc = "done"
                     /\ outcome = Raised("ModelNotSelectedError")
           /\ (LegacyCall /\ MeantModelId = None)
                  => /\ pc = "done"
                     /\ outcome = Raised("ModelNotSelectedError")
           /\ (LegacyCall /\ MeantModelId # None /\ Len(split(MeantModelId)) # 2)
                  => /\ pc = "done"
                     /\ outcome = Raised("InvalidModelIdentifier")
           /\ (/\ pc = "done"
               /\ outcome.error \in {"WrongClientModeError", "ModelNotSelectedError",
                                     "InvalidModelIdentifier"})
                  => HttpCount = 0 /\ requests_data = <<>>

C32_Witness ==
    /\ pc = "done"
    /\ call.op = "infer_from_api_v1"
    /\ pre.client_mode = V0
    /\ MeantModelId = None
    /\ outcome = Raised("WrongClientModeError")

\* C33: in a Current-mode inference call the description is resolved before
\* any inference request is built or sent; a failed first registry fetch
\* ends the call with no load attempted; a failed load ends it with no
\* second fetch and with the load's own error, not ModelNotInitializedError;
\* and a call whose description was not resolved has sent nothing to an
\* /infer/<task> endpoint
C33_DescriptionBeforeInference ==
    (pc # "idle" /\ CurrentCall /\ pre.client_mode = V1)
        => /\ requests_data # <<>>
                  => /\ model_description # NoDescription
                     /\ http.answers # <<>>
                     /\ http.answers[Len(http.answers)] = "present"
           /\ (http.answers # <<>> /\ http.answers[1] \in Failures)
                  => /\ pc = "done"
                     /\ outcome.kind = "raise"
                     /\ http.registry = 1
                     /\ http.add = 0
           /\ (Len(http.answers) >= 2 /\ http.answers[2] \in Failures)
                  => /\ pc = "done"
                     /\ outcome.kind = "raise"
                     /\ outcome.error \in RequestErrors
                     /\ outcome.error # "ModelNotInitializedError"
                     /\ http.registry = 1
                     /\ http.add = 1
           /\ model_description = NoDescription
                  => /\ requests_data = <<>>
                     /\ \A j \in 1..Len(sent) : sent[j] = 0
                     /\ http.post = 0

C33_Witness ==
    /\ pc = "done"
    /\ call.op = "infer"
    /\ pre.client_mode = V1
    /\ http.answers = <<"absent", "status_error">>
    /\ http.registry = 1
    /\ http.add = 1
    /\ outcome.error = "HTTPCallErrorError"
    /\ requests_data = <<>>

\* the auxiliary operations that send request packages
AuxiliaryOps == {"ocr_image", "detect_gazes", "get_clip_image_embeddings"}

\* the API key is in the place the mode asks for, and in that place only:
\* the query of the url in Legacy mode, the payload in Current mode
KeyPlacedBy(mode, url, in_payload) ==
    IF mode = V0
    THEN url.query = <<"api_key">> /\ ~in_payload
    ELSE url.query = <<>> /\ in_payload

\* C34: every request of an auxiliary operation (OCR, CLIP image embeddings
\* and compare, gaze) carries the API key in exactly one place, chosen by
\* the mode at call time: appended to the url in Legacy mode, a field of the
\* payload in Current mode; never both and never neither
C34_ApiKeyInOnePlace ==
    /\ (pc # "idle" /\ call.op \in AuxiliaryOps)
           => \A j \in 1..Len(requests_data) :
                  /\ KeyPlacedBy(pre.client_mode, requests_data[j].url,
                                 requests_data[j].payload.api_key)
                  /\ (requests_data[j].url.query # <<>>)
                         # requests_data[j].payload.api_key
    /\ (pc # "idle" /\ call.op = "clip_compare" /\ http.post = 1)
           => /\ KeyPlacedBy(pre.client_mode, http.posted.url, http.posted.api_key)
              /\ (http.posted.url.query # <<>>) # http.posted.api_key

C34_Witness ==
    /\ CallReturned
    /\ call.op = "ocr_image"
    /\ pre.client_mode = V0
    /\ Len(requests_data) = 2
    /\ requests_data[2].url.query = <<"api_key">>
    /\ ~requests_data[2].payload.api_key
    /\ sent[2] = 1

(* --------------------- client downsizing parameters ------------------- *)

\* the configurations of InitCalls, with client downsizing on or off
DownsizingConfigurations ==
    [max_batch_size : 1..MaxBatchSize,
     max_concurent_requests : 1..MaxConcurrentRequests,
     client_downsizing_disabled : BOOLEAN,
     default_max_input_size : {DefaultMaxInputSize}]

\* (input_height, input_width) of a ModelDescription, each Optional[int]
DescribedSizes == {NoSize, 640} \X {NoSize, 480}

\* a client constructed and configured, no call started
InitDownsizing ==
    /\ api_url \in {HostedUrl, LocalUrl}
    /\ client_mode = determine_client_mode(api_url)
    /\ selected_model \in {None, M1}
    /\ inference_configuration \in DownsizingConfigurations
    /\ scope_stack = <<>>
    /\ pc = "idle"
    /\ call = NoCall
    /\ pre = NoSnapshot
    /\ allow_loading = TRUE
    /\ model_description = NoDescription
    /\ requests_data = <<>>
    /\ status = <<>>
    /\ responses = <<>>
    /\ sent = <<>>
    /\ http = NoHttp
    /\ outcome = NoOutcome

\* the calls that load images, against registries that describe models of
\* every input size
NextDownsizing ==
    \/ (Idle /\ \E a \in BOOLEAN, m \in {None, M2}, i \in SingleImageInputs :
           infer(a, m, i))
    \/ (Idle /\ \E a \in BOOLEAN, m \in {None, M2}, i \in SingleImageInputs :
           infer_from_api_v0(a, m, i))
    \/ (Idle /\ \E a \in BOOLEAN, m \in {None, M2}, i \in SingleImageInputs :
           infer_from_api_v1(a, m, i))
    \/ (Idle /\ \E a \in BOOLEAN, i \in SingleImageInputs : ocr_image(a, i))
    \/ \E f \in Failures : registry_fails(f)
    \/ \E t \in TaskTypes, size \in DescribedSizes : registry_describes(t, size)
    \/ registry_without_model
    \/ \E f \in Failures : add_fails(f)
    \/ add_succeeds_describe
    \/ \E j \in 1..Len(status) : dispatch(j)
    \/ \E j \in 1..Len(status) :
           \E r \in Answers(Pipeline(call, client_mode), requests_data[j]) :
               completes(j, r)
    \/ \E j \in 1..Len(status), f \in Failures : fails(j, f)
    \/ executor_raises
    \/ executor_returns
    \/ call_ends

SpecDownsizing == InitDownsizing /\ [][NextDownsizing]_vars

\* the description of the model sets both of its input dimensions
BothSet(description) ==
    /\ description # NoDescription
    /\ description.input_height # NoSize
    /\ description.input_width # NoSize

\* the maximum size the loader of the inference call in progress must get
ExpectedMaxSize ==
    IF inference_configuration.client_downsizing_disabled THEN NoMaxSize
    ELSE IF Pipeline(call, client_mode) = "v1" /\ BothSet(model_description)
    THEN <<model_description.input_height, model_description.input_width>>
    ELSE <<DefaultMaxInputSize, DefaultMaxInputSize>>

\* C35: the images of an inference call are loaded with no maximum size when
\* client downsizing is disabled, else with the model's (input_height,
\* input_width) when the call resolved a description that sets both, else
\* with the default maximum size on both sides; a Legacy inference call,
\* which resolves no description, loads with the default or with no maximum.
C35_MaxInputSizeHandedToLoader ==
    (call.op \in InferenceOps /\ requests_data # <<>>)
        => /\ \A j \in 1..Len(requests_data) :
                  requests_data[j].max_input_size = ExpectedMaxSize
           /\ Pipeline(call, client_mode) = "v0"
                  => /\ model_description = NoDescription
                     /\ ExpectedMaxSize \in
                            {NoMaxSize, <<DefaultMaxInputSize, DefaultMaxInputSize>>}

\* a Current-generation call whose model is 640 high and leaves its width
\* unset has loaded its image with the default maximum size, downsizing on
C35_Witness ==
    /\ pc = "exec"
    /\ call.op = "infer_from_api_v1"
    /\ ~inference_configuration.client_downsizing_disabled
    /\ model_description.input_height = 640
    /\ model_description.input_width = NoSize
    /\ requests_data[1].max_input_size = <<DefaultMaxInputSize, DefaultMaxInputSize>>

(* ----------------------- termination of inference --------------------- *)

\* the inference calls, each from start to end: infer on the selected model,
\* the two generations called directly on a model of their own
NextInference ==
    \/ (Idle /\ \E a \in BOOLEAN, i \in InferenceInputs : infer(a, None, i))
    \/ (Idle /\ \E a \in BOOLEAN, i \in InferenceInputs : infer_from_api_v0(a, M2, i))
    \/ (Idle /\ \E a \in BOOLEAN, i \in InferenceInputs : infer_from_api_v1(a, M2, i))
    \/ \E f \in Failures : registry_fails(f)
    \/ \E t \in TaskTypes : registry_with_model(t)
    \/ registry_without_model
    \/ \E f \in Failures : add_fails(f)
    \/ add_succeeds_describe
    \/ \E j \in 1..Len(status) : dispatch(j)
    \/ \E j \in 1..Len(status) :
           \E r \in Answers(Pipeline(call, client_mode), requests_data[j]) :
               completes(j, r)
    \/ \E j \in 1..Len(status), f \in Failures : fails(j, f)
    \/ executor_raises
    \/ executor_returns
    \/ call_ends

\* a request package in flight completes, with success or failure
Completion ==
    \/ \E j \in 1..Len(status) :
           \E r \in Answers(Pipeline(call, client_mode), requests_data[j]) :
               completes(j, r)
    \/ \E j \in 1..Len(status), f \in Failures : fails(j, f)

\* the steps execute_requests_packages and its caller take on their own
Executor ==
    \/ \E j \in 1..Len(status) : dispatch(j)
    \/ executor_raises
    \/ executor_returns

\* the inference calls, with every issued request completing and the
\* executor running whenever it can
SpecInferenceLive ==
    /\ InitCalls
    /\ [][NextInference]_vars
    /\ WF_vars(Answer)
    /\ WF_vars(Completion)
    /\ WF_vars(Executor)

\* an inference call is in progress
InferenceInProgress == call.op \in InferenceOps /\ pc \notin {"idle", "done"}

\* every package was sent once and has its one response, by position
EachPackageSentAndAnsweredOnce ==
    /\ Len(sent) = Len(requests_data)
    /\ Len(responses) = Len(requests_data)
    /\ \A j \in 1..Len(requests_data) :
           /\ sent[j] = 1
           /\ status[j] = "ok"
           /\ responses[j].kind \in {"list", "object"}
    /\ http.post = Len(requests_data)

\* C36: with every issued request completing and a concurrency ceiling of
\* at least 1, an inference call in progress eventually returns or raises,
\* and when it returns each of its request packages has been sent exactly
\* once and has exactly one response paired with it.
C36_InferenceTerminates ==
    /\ InferenceInProgress ~> (pc = "done")
    /\ [](CallReturned /\ call.op \in InferenceOps => EachPackageSentAndAnsweredOnce)

\* a Legacy call over three images returned after its three requests
C36_Witness ==
    /\ CallReturned
    /\ call.op = "infer_from_api_v0"
    /\ inference_configuration.max_concurent_requests >= 1
    /\ Len(requests_data) = 3
    /\ sent = <<1, 1, 1>>
    /\ Len(outcome.results) = 3


==============================================================================
